---- MODULE Spec2Model ----
(***************************************************************************)
(* Model of the font-to-svg service: the FontCache (services/fontCache.ts, *)
(* concatenated at the end of services/textToSvg.ts) as a state machine    *)
(* with concurrent callers, and the anchor / metrics functions of          *)
(* TextToSVG as operators applied by a second specification.               *)
(***************************************************************************)
EXTENDS Integers, Sequences, FiniteSets, Bags, TLC

VARIABLES
    cache,       \* FontCache.cache: the Map in insertion order, a sequence of CachedFont records with their key
    totalSize,   \* FontCache.totalSize
    now,         \* the value Date.now() returned last
    files,       \* the paths that exist on disk
    loads,       \* the load() calls in flight: a bag of their locals and positions
    nextInst,    \* number of TextToSVG instances constructed so far
    last,        \* history: the get() or clear() that settled last
    call,        \* the getMetrics call made last: its text and options
    anchorOption, \* that call's local `anchor`, the result of parseAnchorOption
    result       \* what that call returned or threw

vars == <<cache, totalSize, now, files, loads, nextInst, last, call, anchorOption, result>>

-----------------------------------------------------------------------------
(* Bounds *)
NumCallers == 2
MaxClock == 2
MaxLoads == 3
MaxPieces == 2
MaxTextLen == 3
MaxCommands == 2
MaxCalls == 2
MaxSegments == 3
MaxLines == 3

(* Program constants *)
MiB == 1024 * 1024
maxSize == 256 * 1024 * 1024

\* File sizes fs.stat can report
Sizes == {100 * MiB, 200 * MiB, 300 * MiB}

\* The fontFile arguments of get(): a path split at its separators; <<>> is undefined or ''
NoFile == <<>>
FontFiles == {NoFile, <<"a.ttf">>, <<"d", "a.ttf">>}

Min(a, b) == IF a < b THEN a ELSE b

-----------------------------------------------------------------------------
(* path handling *)

RECURSIVE GCD(_, _)
GCD(a, b) == IF b = 0 THEN a ELSE GCD(b, a % b)

\* the fraction n / d in lowest terms
Ratio(n, d) == LET g == GCD(n, d) IN [num |-> n \div g, den |-> d \div g]

RECURSIVE normalizeString(_, _, _)
\* path.normalize's segment walk: '' and '.' are dropped, '..' removes the
\* segment before it, or is kept at the front of a relative path
normalizeString(segs, res, isAbsolute) ==
    IF segs = <<>> THEN res
    ELSE LET s == Head(segs)
             rest == Tail(segs)
         IN  IF s = "" \/ s = "." THEN normalizeString(rest, res, isAbsolute)
             ELSE IF s = ".."
                  THEN IF res # <<>> /\ res[Len(res)] # ".."
                       THEN normalizeString(rest, SubSeq(res, 1, Len(res) - 1), isAbsolute)
                       ELSE IF isAbsolute
                            THEN normalizeString(rest, res, isAbsolute)
                            ELSE normalizeString(rest, Append(res, ".."), isAbsolute)
                  ELSE normalizeString(rest, Append(res, s), isAbsolute)

RECURSIVE stripLeadingDotDot(_)
\* .replace(/^(\.\.(\/|\\|$))+/, '')
stripLeadingDotDot(segs) ==
    IF segs # <<>> /\ Head(segs) = ".." THEN stripLeadingDotDot(Tail(segs)) ELSE segs

\* mutant: the path is normalized and nothing more
sanitizePathNormalized(fontFile) ==
    LET isAbsolute == Len(fontFile) > 1 /\ fontFile[1] = ""
    IN  normalizeString(fontFile, <<>>, isAbsolute)

sanitizePath(fontFile) ==
    LET isAbsolute == Len(fontFile) > 1 /\ fontFile[1] = ""
        normalized == stripLeadingDotDot(normalizeString(fontFile, <<>>, isAbsolute))
    IN  SelectSeq(normalized, LAMBDA part : part # ".." /\ part # "." /\ part # "")

basename(segs) == IF segs = <<>> THEN <<>> ELSE <<segs[Len(segs)]>>

\* mutant: the uploads directory is probed before the fonts directory
searchPathsUploadsFirst(fontFile) ==
    LET sanitizedFontFile == sanitizePath(fontFile)
    IN  << <<"uploads">> \o sanitizedFontFile,
           <<"fonts">> \o sanitizedFontFile,
           <<"uploads">> \o basename(sanitizedFontFile),
           <<"fonts">> \o basename(sanitizedFontFile) >>

\* the four candidates of load(), in the order they are probed
searchPaths(fontFile) ==
    LET sanitizedFontFile == sanitizePath(fontFile)
    IN  << <<"fonts">> \o sanitizedFontFile,
           <<"uploads">> \o sanitizedFontFile,
           <<"fonts">> \o basename(sanitizedFontFile),
           <<"uploads">> \o basename(sanitizedFontFile) >>

DefaultFontPath == <<"fonts", "SourceHanSerifJP-Light.otf">>

CacheKey(fontFile) == IF fontFile = NoFile THEN <<"default">> ELSE fontFile

AllPaths ==
    {DefaultFontPath} \cup
    UNION {{searchPaths(f)[i] : i \in 1 .. 4} : f \in FontFiles \ {NoFile}}

\* the states of the disk the concurrent specification starts from: every
\* candidate present; only fonts/a.ttf present (no default font); nothing present
FsConfigs == {AllPaths, {<<"fonts", "a.ttf">>}, {}}

-----------------------------------------------------------------------------
(* the cache map *)

\* the locals of one load() call and the await it is suspended at:
\* "resolve" (fs.access loop), "stat" (fs.stat), "parse" (TextToSVG.loadSync);
\* again: the call was issued for a key that the clear() just before removed
Load(fontFile, pc, fontPath, fileSize, again) ==
    [fontFile |-> fontFile, pc |-> pc, fontPath |-> fontPath, fileSize |-> fileSize, again |-> again]

\* what settled last: kind "hit" or "load" (a get() that returned inst), "throw"
\* (a get() that threw error), "clear" (keys: what it removed), "" (nothing yet);
\* fresh: no eviction has removed the returned key since; again: the hit came
\* right after a get() of the same key, the load was issued right after a
\* clear() that removed the key
NoLast == [kind |-> "", fontFile |-> NoFile, inst |-> 0, error |-> "", keys |-> {},
           fresh |-> FALSE, again |-> FALSE]
Returned(fontFile, kind, inst, again) ==
    [NoLast EXCEPT !.kind = kind, !.fontFile = fontFile, !.inst = inst, !.fresh = TRUE,
                   !.again = again]
Threw(fontFile, message) == [NoLast EXCEPT !.kind = "throw", !.fontFile = fontFile, !.error = message]
Cleared(keys) == [NoLast EXCEPT !.kind = "clear", !.keys = keys]
IsGet(l) == l.kind \in {"hit", "load"}
\* the last thing settled is a get() of this key, and the key was not evicted since
JustGot(cacheKey) == IsGet(last) /\ last.fresh /\ CacheKey(last.fontFile) = cacheKey

Keys(c) == {c[i].key : i \in DOMAIN c}
Has(c, k) == k \in Keys(c)
IndexOf(c, k) == CHOOSE i \in DOMAIN c : c[i].key = k
Entry(c, k) == c[IndexOf(c, k)]

RECURSIVE SumSizes(_)
SumSizes(c) == IF c = <<>> THEN 0 ELSE Head(c).size + SumSizes(Tail(c))

\* Map.set: an existing key keeps its place, a new key goes last
MapSet(c, e) ==
    IF Has(c, e.key) THEN [c EXCEPT ![IndexOf(c, e.key)] = e] ELSE Append(c, e)

RECURSIVE Insert(_, _)
\* insertion into a sequence sorted by lastAccessed, after the equal ones
Insert(sorted, e) ==
    IF sorted = <<>> THEN <<e>>
    ELSE IF e.lastAccessed < Head(sorted).lastAccessed
         THEN <<e>> \o sorted
         ELSE <<Head(sorted)>> \o Insert(Tail(sorted), e)

\* mutant: the entries are taken in the map's order, not sorted
SortByInsertion(c) == c

RECURSIVE SortByLastAccessed(_)
\* Array.prototype.sort is stable: equal lastAccessed keep the map's order
SortByLastAccessed(c) ==
    IF c = <<>> THEN <<>>
    ELSE Insert(SortByLastAccessed(SubSeq(c, 1, Len(c) - 1)), c[Len(c)])

RECURSIVE evictLoopNoRequired(_, _, _, _)
\* mutant: the loop stops as soon as the present total fits, the new font not counted
evictLoopNoRequired(entries, total, requiredSpace, acc) ==
    IF entries = <<>> THEN acc
    ELSE IF total - acc.freedSpace <= maxSize THEN acc
         ELSE evictLoopNoRequired(Tail(entries), total, requiredSpace,
                                  [deleted |-> acc.deleted \cup {Head(entries).key},
                                   freedSpace |-> acc.freedSpace + Head(entries).size])

RECURSIVE evictLoop(_, _, _, _)
\* the for loop of evictLRU: returns the keys deleted and the space freed
evictLoop(entries, total, requiredSpace, acc) ==
    IF entries = <<>> THEN acc
    ELSE IF total - acc.freedSpace + requiredSpace <= maxSize THEN acc
         ELSE evictLoop(Tail(entries), total, requiredSpace,
                        [deleted |-> acc.deleted \cup {Head(entries).key},
                         freedSpace |-> acc.freedSpace + Head(entries).size])

\* mutant: the freed space is not taken off the running total
evictLRUKeepTotal(c, total, requiredSpace) ==
    LET entries == SortByLastAccessed(c)
        r == evictLoop(entries, total, requiredSpace, [deleted |-> {}, freedSpace |-> 0])
    IN  [cache |-> SelectSeq(c, LAMBDA e : e.key \notin r.deleted),
         totalSize |-> total,
         deleted |-> r.deleted]

evictLRU(c, total, requiredSpace) ==
    LET entries == SortByLastAccessed(c)
        r == evictLoop(entries, total, requiredSpace, [deleted |-> {}, freedSpace |-> 0])
    IN  [cache |-> SelectSeq(c, LAMBDA e : e.key \notin r.deleted),
         totalSize |-> total - r.freedSpace,
         deleted |-> r.deleted]

\* Date.now(): never goes back, may return the same millisecond twice
DateNow == now .. Min(now + 1, MaxClock)

InFlight == BagToSet(loads)
Replace(l, m) == (loads (-) SetToBag({l})) (+) SetToBag({m})
Remove(l) == loads (-) SetToBag({l})

-----------------------------------------------------------------------------
\* ---------------------------------------------------------------------------
\* Text metrics (class TextToSVG).
\*
\* Strings are sequences of one-character strings.  A length in pixels is
\* represented by the integer (pixels * font.unitsPerEm), so that
\* fontScale * v = (1 / unitsPerEm) * fontSize * v is the integer fontSize * v.
\* An option that is absent is represented by the falsy value of its type
\* (0, "" or the empty string <<>>): the code reads every option through
\* `options.o || default` or `if (options.o)`.  lineHeight and letterSpacing
\* are given in tenths.
\* ---------------------------------------------------------------------------

\* The font the instance was constructed with: every glyph has the same
\* advance width and outline box, and no pair is kerned.
font ==
    [unitsPerEm |-> 1000, ascender |-> 800, descender |-> -200,
     advanceWidth |-> 600, kerningValue |-> 0,
     boundingBox |-> [x1 |-> 0, y1 |-> 0, x2 |-> 600, y2 |-> 800]]

\* The letters of the tokens, in upper and in lower case.
caseOf ==
    [upper \in {"A", "B", "C", "D", "E", "F", "G", "H", "I", "L", "M", "N", "O", "P", "R", "S", "T"} |->
        CASE upper = "A" -> "a" [] upper = "B" -> "b" [] upper = "C" -> "c"
          [] upper = "D" -> "d" [] upper = "E" -> "e" [] upper = "F" -> "f"
          [] upper = "G" -> "g" [] upper = "H" -> "h" [] upper = "I" -> "i"
          [] upper = "L" -> "l" [] upper = "M" -> "m" [] upper = "N" -> "n"
          [] upper = "O" -> "o" [] upper = "P" -> "p" [] upper = "R" -> "r"
          [] upper = "S" -> "s" [] upper = "T" -> "t"]

\* The case folding of the regular expressions' i flag.
toLowerCase(ch) == IF ch \in DOMAIN caseOf THEN caseOf[ch] ELSE ch

left == <<"l", "e", "f", "t">>
center == <<"c", "e", "n", "t", "e", "r">>
right == <<"r", "i", "g", "h", "t">>
baseline == <<"b", "a", "s", "e", "l", "i", "n", "e">>
top == <<"t", "o", "p">>
bottom == <<"b", "o", "t", "t", "o", "m">>
middle == <<"m", "i", "d", "d", "l", "e">>

\* /left|center|right/gi and /baseline|top|bottom|middle/gi
HorizontalPattern == <<left, center, right>>
VerticalPattern == <<baseline, top, bottom, middle>>

\* The alternative matches str at position i, ignoring case.
matchesAt(str, i, alternative) ==
    /\ i + Len(alternative) - 1 <= Len(str)
    /\ \A k \in 1..Len(alternative) : toLowerCase(str[i + k - 1]) = alternative[k]

\* String.prototype.match with a global pattern: the matched substrings, left
\* to right, each the first alternative that matches at the leftmost position
\* at or after the end of the previous match; <<>> for null.
RECURSIVE match(_, _, _)
match(str, pattern, from) ==
    IF from > Len(str) THEN <<>>
    ELSE LET hits == {a \in 1..Len(pattern) : matchesAt(str, from, pattern[a])}
         IN  IF hits = {} THEN match(str, pattern, from + 1)
             ELSE LET a == CHOOSE h \in hits : \A g \in hits : h <= g
                      end == from + Len(pattern[a])
                  IN  <<SubSeq(str, from, end - 1)>> \o match(str, pattern, end)

parseAnchorOptionLast(anchor) ==
    LET matchH == match(anchor, HorizontalPattern, 1)
        matchV == match(anchor, VerticalPattern, 1)
    IN  [horizontal |-> IF Len(matchH) = 0 THEN left ELSE matchH[Len(matchH)],
         vertical |-> IF Len(matchV) = 0 THEN baseline ELSE matchV[Len(matchV)]]

parseAnchorOption(anchor) ==
    LET matchH == match(anchor, HorizontalPattern, 1)
        matchV == match(anchor, VerticalPattern, 1)
    IN  [horizontal |-> IF Len(matchH) = 0 THEN left ELSE matchH[1],
         vertical |-> IF Len(matchV) = 0 THEN baseline ELSE matchV[1]]

\* A call either returns a value or throws an Error with a message.
ReturnValue(value) == [threw |-> FALSE, message |-> <<>>, value |-> value]
ThrowError(message) == [threw |-> TRUE, message |-> message, value |-> <<>>]
UnknownAnchorOption(token) == ThrowError(<<"Unknown anchor option: ", token>>)

\* options.fontSize || 72
fontSizeOf(options) == IF options.fontSize = 0 THEN 72 ELSE options.fontSize

lineHeightOfSolid(options) ==
    ((IF options.lineHeight = 0 THEN 10 ELSE options.lineHeight)
        * fontSizeOf(options) * font.unitsPerEm) \div 10

\* (options.lineHeight || 1.2) * fontSize
lineHeightOf(options) ==
    ((IF options.lineHeight = 0 THEN 12 ELSE options.lineHeight)
        * fontSizeOf(options) * font.unitsPerEm) \div 10

\* What letterSpacing, else tracking, adds after a glyph.
spacingOf(options) ==
    IF options.letterSpacing # 0
    THEN (options.letterSpacing * fontSizeOf(options) * font.unitsPerEm) \div 10
    ELSE IF options.tracking # 0
         THEN (options.tracking * fontSizeOf(options) * font.unitsPerEm) \div 1000
         ELSE 0

\* String.prototype.charCodeAt(0) of a one-character string.
charCodeAt(ch) ==
    CASE ch = "\n" -> 10
      [] ch = " " -> 32
      [] ch = "A" -> 65
      [] ch = "B" -> 66
      [] ch = "C" -> 67

includes(str, ch) == \E i \in 1..Len(str) : str[i] = ch

\* Array.prototype.join(separator) of strings
RECURSIVE join(_, _)
join(words, separator) ==
    IF Len(words) = 0 THEN <<>>
    ELSE IF Len(words) = 1 THEN words[1]
    ELSE words[1] \o separator \o join(Tail(words), separator)

RECURSIVE splitNonEmpty(_, _)
splitNonEmpty(str, ch) ==
    IF ~includes(str, ch) THEN <<str>>
    ELSE LET i == CHOOSE j \in 1..Len(str) :
                      str[j] = ch /\ \A k \in 1..(j - 1) : str[k] # ch
         IN  (IF i = 1 THEN <<>> ELSE <<SubSeq(str, 1, i - 1)>>)
                 \o splitNonEmpty(SubSeq(str, i + 1, Len(str)), ch)

\* String.prototype.split: the pieces of str between the occurrences of ch.
RECURSIVE split(_, _)
split(str, ch) ==
    IF ~includes(str, ch) THEN <<str>>
    ELSE LET i == CHOOSE j \in 1..Len(str) :
                      str[j] = ch /\ \A k \in 1..(j - 1) : str[k] # ch
         IN  <<SubSeq(str, 1, i - 1)>> \o split(SubSeq(str, i + 1, Len(str)), ch)

RECURSIVE MaxOf(_)
MaxOf(numbers) ==
    IF Len(numbers) = 1 THEN numbers[1]
    ELSE LET rest == MaxOf(Tail(numbers))
         IN  IF numbers[1] >= rest THEN numbers[1] ELSE rest

\* mutant: the spacing goes between the glyphs only
getWidthSpacedBetween(text, options) ==
    LET fontSize == fontSizeOf(options)
        n == Len(text)
    IN  n * font.advanceWidth * fontSize
        + (IF options.kerning /\ n > 1 THEN (n - 1) * font.kerningValue * fontSize ELSE 0)
        + (IF n > 1 THEN (n - 1) * spacingOf(options) ELSE 0)

getWidth(text, options) ==
    LET fontSize == fontSizeOf(options)
        n == Len(text)
    IN  n * font.advanceWidth * fontSize
        + (IF options.kerning /\ n > 1 THEN (n - 1) * font.kerningValue * fontSize ELSE 0)
        + n * spacingOf(options)

getHeightAboveBaseline(fontSize) == font.ascender * fontSize

getHeight(fontSize) == (font.ascender - font.descender) * fontSize

RECURSIVE verticalHeightFromSpacedAlways(_, _, _)
\* mutant: the spacing follows every printable glyph, the last glyph too
verticalHeightFromSpacedAlways(text, options, i) ==
    IF i > Len(text) THEN 0
    ELSE LET fontSize == fontSizeOf(options)
             charSpacing == (fontSize * font.unitsPerEm) \div 10
             charHeight == (font.boundingBox.y2 - font.boundingBox.y1) * fontSize
             spaceHeight == (fontSize * font.unitsPerEm * 6) \div 10
             step == IF charCodeAt(text[i]) > 32
                     THEN charHeight + charSpacing + spacingOf(options)
                     ELSE IF font.advanceWidth # 0 THEN spaceHeight ELSE 0
         IN  step + verticalHeightFromSpacedAlways(text, options, i + 1)

RECURSIVE verticalHeightFrom(_, _, _)
verticalHeightFrom(text, options, i) ==
    IF i > Len(text) THEN 0
    ELSE LET fontSize == fontSizeOf(options)
             charSpacing == (fontSize * font.unitsPerEm) \div 10
             charHeight == (font.boundingBox.y2 - font.boundingBox.y1) * fontSize
             spaceHeight == (fontSize * font.unitsPerEm * 6) \div 10
             step == IF charCodeAt(text[i]) > 32
                     THEN charHeight
                          + (IF i < Len(text) THEN charSpacing ELSE 0)
                          + spacingOf(options)
                     ELSE IF font.advanceWidth # 0 THEN spaceHeight ELSE 0
         IN  step + verticalHeightFrom(text, options, i + 1)

getVerticalHeight(text, options) == verticalHeightFrom(text, options, 1)

getVerticalWidth(fontSize) == (font.ascender - font.descender) * fontSize

anchoredAtTop(anchor, x, y, width, height, ascender) ==
    [x |-> CASE anchor.horizontal = left -> x
             [] anchor.horizontal = center -> x - (width \div 2)
             [] anchor.horizontal = right -> x - width,
     y |-> CASE anchor.vertical = baseline -> y
             [] anchor.vertical = top -> y
             [] anchor.vertical = middle -> y - (height \div 2)
             [] anchor.vertical = bottom -> y - height]

\* The case labels of the two switch statements every layout ends with: the
\* position moved by the anchor.
anchored(anchor, x, y, width, height, ascender) ==
    [x |-> CASE anchor.horizontal = left -> x
             [] anchor.horizontal = center -> x - (width \div 2)
             [] anchor.horizontal = right -> x - width,
     y |-> CASE anchor.vertical = baseline -> y - ascender
             [] anchor.vertical = top -> y
             [] anchor.vertical = middle -> y - (height \div 2)
             [] anchor.vertical = bottom -> y - height]

applyAnchorFolded(anchor, x, y, width, height, ascender) ==
    ReturnValue(anchored(
        [horizontal |-> [k \in 1..Len(anchor.horizontal) |-> toLowerCase(anchor.horizontal[k])],
         vertical |-> [k \in 1..Len(anchor.vertical) |-> toLowerCase(anchor.vertical[k])]],
        x, y, width, height, ascender))

\* The two switch statements: the moved position, or the Error of the default
\* label of the first axis whose token is no case label.
applyAnchor(anchor, x, y, width, height, ascender) ==
    IF anchor.horizontal \notin {left, center, right}
    THEN UnknownAnchorOption(anchor.horizontal)
    ELSE IF anchor.vertical \notin {baseline, top, middle, bottom}
    THEN UnknownAnchorOption(anchor.vertical)
    ELSE ReturnValue(anchored(anchor, x, y, width, height, ascender))

SingleLineMetrics(x, y, width, height, ascender, descender) ==
    [x |-> x, y |-> y, baseline |-> y + ascender, width |-> width, height |-> height,
     ascender |-> ascender, descender |-> descender, lines |-> <<>>]

\* The end of a single-line layout: `switched` is what the two switch
\* statements gave.
positionLine(switched, width, height, ascender, descender) ==
    IF switched.threw THEN switched
    ELSE ReturnValue(SingleLineMetrics(switched.value.x, switched.value.y, width, height,
                                       ascender, descender))

getVerticalMetrics(text, options) ==
    LET fontSize == fontSizeOf(options)
        height == getVerticalHeight(text, options)
        width == getVerticalWidth(fontSize)
        ascender == font.ascender * fontSize
        descender == font.descender * fontSize
    IN  positionLine(
            applyAnchor(parseAnchorOption(options.anchor), options.x * font.unitsPerEm,
                        options.y * font.unitsPerEm, width, height, ascender),
            width, height, ascender, descender)

\* getMetrics for a text without a newline: the part of it after the branch
\* for multi-line text.
getSingleLineMetrics(text, options) ==
    LET writingMode == IF options.writingMode = "" THEN "horizontal" ELSE options.writingMode
        fontSize == fontSizeOf(options)
        width == getWidth(text, options)
        height == getHeight(fontSize)
        ascender == font.ascender * fontSize
        descender == font.descender * fontSize
    IN  IF writingMode = "vertical" THEN getVerticalMetrics(text, options)
        ELSE positionLine(
                 applyAnchor(parseAnchorOption(options.anchor), options.x * font.unitsPerEm,
                             options.y * font.unitsPerEm, width, height, ascender),
                 width, height, ascender, descender)

\* lines.map(...): the metrics of every line, or what the first line that
\* throws has thrown.
mapLines(lines, each) ==
    IF \E i \in 1..Len(each) : each[i].threw
    THEN each[CHOOSE i \in 1..Len(each) :
                each[i].threw /\ \A j \in 1..(i - 1) : ~each[j].threw]
    ELSE ReturnValue(
        [i \in 1..Len(each) |->
            [text |-> lines[i], x |-> each[i].value.x, y |-> each[i].value.y,
             baseline |-> each[i].value.baseline, width |-> each[i].value.width,
             height |-> each[i].value.height, ascender |-> each[i].value.ascender,
             descender |-> each[i].value.descender]])

MultilineMetrics(lines, totalWidth, totalHeight, x, y, lineHeight) ==
    [lines |-> lines, totalWidth |-> totalWidth, totalHeight |-> totalHeight,
     x |-> x, y |-> y, lineHeight |-> lineHeight, baseline |-> y + lines[1].ascender]

positionColumnsLeftToRight(switched, lineMetrics, totalWidth, totalHeight, lineHeight) ==
    IF switched.threw THEN switched
    ELSE ReturnValue(MultilineMetrics(
        [i \in 1..Len(lineMetrics) |->
            [lineMetrics[i] EXCEPT
                !.x = switched.value.x + (i - 1) * lineHeight
                      + ((lineHeight - lineMetrics[i].width) \div 2),
                !.y = switched.value.y,
                !.baseline = switched.value.y + lineMetrics[i].ascender]],
        totalWidth, totalHeight, switched.value.x, switched.value.y, lineHeight))

\* The loop that positions the columns, right to left.
positionColumns(switched, lineMetrics, totalWidth, totalHeight, lineHeight) ==
    IF switched.threw THEN switched
    ELSE ReturnValue(MultilineMetrics(
        [i \in 1..Len(lineMetrics) |->
            [lineMetrics[i] EXCEPT
                !.x = switched.value.x + totalWidth - i * lineHeight
                      + ((lineHeight - lineMetrics[i].width) \div 2),
                !.y = switched.value.y,
                !.baseline = switched.value.y + lineMetrics[i].ascender]],
        totalWidth, totalHeight, switched.value.x, switched.value.y, lineHeight))

\* getVerticalMultilineMetrics once the columns are measured.
layoutColumns(options, mapped) ==
    LET lineMetrics == mapped.value
        lineHeight == lineHeightOf(options)
        totalHeight == MaxOf([i \in 1..Len(lineMetrics) |-> lineMetrics[i].height])
        totalWidth == lineMetrics[1].width + (Len(lineMetrics) - 1) * lineHeight
        ascender == font.ascender * fontSizeOf(options)
    IN  IF mapped.threw THEN mapped
        ELSE positionColumns(
                 applyAnchor(parseAnchorOption(options.anchor), options.x * font.unitsPerEm,
                             options.y * font.unitsPerEm, totalWidth, totalHeight, ascender),
                 lineMetrics, totalWidth, totalHeight, lineHeight)

getVerticalMultilineMetrics(text, options) ==
    LET lines == split(text, "\n")
        singleLineOptions ==
            [options EXCEPT !.lineHeight = 0, !.textAlign = "", !.x = 0, !.y = 0,
                            !.anchor = <<>>, !.writingMode = "vertical"]
    IN  layoutColumns(options,
            mapLines(lines,
                [i \in 1..Len(lines) |-> getVerticalMetrics(lines[i], singleLineOptions)]))

positionLinesFlushLeft(switched, lineMetrics, totalWidth, totalHeight, lineHeight, textAlign) ==
    IF switched.threw THEN switched
    ELSE ReturnValue(MultilineMetrics(
        [i \in 1..Len(lineMetrics) |->
            [lineMetrics[i] EXCEPT
                !.x = switched.value.x,
                !.y = switched.value.y + (i - 1) * lineHeight,
                !.baseline = switched.value.y + (i - 1) * lineHeight
                             + lineMetrics[i].ascender]],
        totalWidth, totalHeight, switched.value.x, switched.value.y, lineHeight))

\* The loop that positions the lines.
positionLines(switched, lineMetrics, totalWidth, totalHeight, lineHeight, textAlign) ==
    IF switched.threw THEN switched
    ELSE ReturnValue(MultilineMetrics(
        [i \in 1..Len(lineMetrics) |->
            [lineMetrics[i] EXCEPT
                !.x = CASE textAlign = "left" -> switched.value.x
                        [] textAlign = "center" ->
                            switched.value.x + ((totalWidth - lineMetrics[i].width) \div 2)
                        [] textAlign = "right" ->
                            switched.value.x + totalWidth - lineMetrics[i].width
                        [] OTHER -> @,
                !.y = switched.value.y + (i - 1) * lineHeight,
                !.baseline = switched.value.y + (i - 1) * lineHeight
                             + lineMetrics[i].ascender]],
        totalWidth, totalHeight, switched.value.x, switched.value.y, lineHeight))

\* getMultilineMetrics once the lines are measured.
layoutLines(options, textAlign, mapped) ==
    LET lineMetrics == mapped.value
        lineHeight == lineHeightOf(options)
        totalWidth == MaxOf([i \in 1..Len(lineMetrics) |-> lineMetrics[i].width])
        totalHeight == (Len(lineMetrics) - 1) * lineHeight + lineMetrics[1].height
    IN  IF mapped.threw THEN mapped
        ELSE positionLines(
                 applyAnchor(parseAnchorOption(options.anchor), options.x * font.unitsPerEm,
                             options.y * font.unitsPerEm, totalWidth, totalHeight,
                             lineMetrics[1].ascender),
                 lineMetrics, totalWidth, totalHeight, lineHeight, textAlign)

\* A line holds no newline, so the getMetrics call for it is one for a single
\* line.
getMultilineMetrics(text, options) ==
    LET lines == split(text, "\n")
        textAlign == IF options.textAlign = "" THEN "left" ELSE options.textAlign
        singleLineOptions ==
            [options EXCEPT !.lineHeight = 0, !.textAlign = "",
                            !.anchor = IF textAlign = "left" THEN left \o <<" ">> \o top
                                       ELSE @]
    IN  layoutLines(options, textAlign,
            mapLines(lines,
                [i \in 1..Len(lines) |-> getSingleLineMetrics(lines[i], singleLineOptions)]))

\* The TextMetrics getMetrics makes of the MultilineMetrics.
TextMetrics(multilineMetrics) ==
    IF multilineMetrics.threw THEN multilineMetrics
    ELSE LET m == multilineMetrics.value
         IN  ReturnValue(
                 [x |-> m.x, y |-> m.y, baseline |-> m.baseline,
                  width |-> m.totalWidth, height |-> m.totalHeight,
                  ascender |-> m.lines[1].ascender,
                  descender |-> m.lines[Len(m.lines)].descender,
                  lines |-> m.lines])

getMetrics(text, options) ==
    LET writingMode == IF options.writingMode = "" THEN "horizontal" ELSE options.writingMode
    IN  IF includes(text, "\n")
        THEN IF writingMode = "vertical"
             THEN TextMetrics(getVerticalMultilineMetrics(text, options))
             ELSE TextMetrics(getMultilineMetrics(text, options))
        ELSE getSingleLineMetrics(text, options)

-----------------------------------------------------------------------------
(* Envelope transformation (services/envelopeTransform.ts) *)

\* Path data is the sequence of its commands: the text that opentype writes
\* and svg-pathdata reads back holds absolute M, L, Q, C and Z commands only,
\* with every number written in full.  A command carries x1, y1 for Q and C
\* and x2, y2 for C; the fields it does not carry are 0.
Command(type, x1, y1, x2, y2, x, y) ==
    [type |-> type, x1 |-> x1, y1 |-> y1, x2 |-> x2, y2 |-> y2, x |-> x, y |-> y]

MoveTo(x, y) == Command("M", 0, 0, 0, 0, x, y)
LineTo(x, y) == Command("L", 0, 0, 0, 0, x, y)
QuadTo(x1, y1, x, y) == Command("Q", x1, y1, 0, 0, x, y)
CurveTo(x1, y1, x2, y2, x, y) == Command("C", x1, y1, x2, y2, x, y)
ArcTo(x, y) == Command("A", 0, 0, 0, 0, x, y)
ClosePath == Command("Z", 0, 0, 0, 0, 0, 0)

\* 'x1' in cmd, 'x2' in cmd
hasX1(cmd) == cmd.type \in {"Q", "C"}
hasX2(cmd) == cmd.type = "C"

\* no transformation asked for; `own` holds which of centerX and centerY the
\* object has as properties, and a property it does not have reads as 0
NoArc ==
    [given |-> FALSE, angle |-> 0, textWidth |-> 0, centerX |-> 0, centerY |-> 0,
     own |-> {}]
NoEnvelope == [given |-> FALSE, arc |-> NoArc]

\* Math.sin and Math.cos of a whole number of quarter turns.
sinOfQuarters(q) == CASE q % 4 = 0 -> 0 [] q % 4 = 1 -> 1 [] q % 4 = 2 -> 0 [] q % 4 = 3 -> -1
cosOfQuarters(q) == sinOfQuarters(q + 1)

\* The quotient, for the divisions that come out even.
exactly(num, den) == CASE num % den = 0 -> num \div den

abs(n) == IF n < 0 THEN -n ELSE n

\* ArcTransform.radius as the constructor sets it, for an angle of a whole
\* number of half turns: textWidth / (2 * sin(angle / 2)).
radiusOf(arc) ==
    IF arc.angle = 0 THEN 0
    ELSE exactly(IF arc.textWidth = 0 THEN 100 ELSE arc.textWidth,
                 2 * sinOfQuarters(exactly(abs(arc.angle), 180)))

transformPointAlways(arc, x, y) ==
    LET textWidth == IF arc.textWidth = 0 THEN 100 ELSE arc.textWidth
        pointAngle == exactly((2 * x - textWidth) * abs(arc.angle), 180 * textWidth)
        isUpward == arc.angle > 0
        bend == radiusOf(arc) * (1 - cosOfQuarters(pointAngle))
    IN  [x |-> arc.centerX + radiusOf(arc) * sinOfQuarters(pointAngle),
         y |-> IF isUpward THEN arc.centerY - bend + y ELSE arc.centerY + bend + y,
         rotation |-> IF isUpward THEN pointAngle * 90 ELSE -(pointAngle * 90)]

\* pointAngle is counted in quarter turns; the x of a point is a whole number
\* of half text widths.
transformPoint(arc, x, y) ==
    IF abs(arc.angle) = 0
    THEN [x |-> arc.centerX + x, y |-> arc.centerY + y, rotation |-> 0]
    ELSE LET textWidth == IF arc.textWidth = 0 THEN 100 ELSE arc.textWidth
             pointAngle == exactly((2 * x - textWidth) * abs(arc.angle), 180 * textWidth)
             isUpward == arc.angle > 0
             bend == radiusOf(arc) * (1 - cosOfQuarters(pointAngle))
         IN  [x |-> arc.centerX + radiusOf(arc) * sinOfQuarters(pointAngle),
              y |-> IF isUpward THEN arc.centerY - bend + y ELSE arc.centerY + bend + y,
              rotation |-> IF isUpward THEN pointAngle * 90 ELSE -(pointAngle * 90)]

transformCommand(arc, cmd) ==
    CASE cmd.type \in {"M", "L", "A"} ->
            [cmd EXCEPT !.x = transformPoint(arc, cmd.x, cmd.y).x,
                        !.y = transformPoint(arc, cmd.x, cmd.y).y]
      [] cmd.type = "C" ->
            [cmd EXCEPT !.x = transformPoint(arc, cmd.x, cmd.y).x,
                        !.y = transformPoint(arc, cmd.x, cmd.y).y,
                        !.x1 = transformPoint(arc, cmd.x1, cmd.y1).x,
                        !.y1 = transformPoint(arc, cmd.x1, cmd.y1).y,
                        !.x2 = transformPoint(arc, cmd.x2, cmd.y2).x,
                        !.y2 = transformPoint(arc, cmd.x2, cmd.y2).y]
      [] cmd.type = "Q" ->
            [cmd EXCEPT !.x = transformPoint(arc, cmd.x, cmd.y).x,
                        !.y = transformPoint(arc, cmd.x, cmd.y).y,
                        !.x1 = transformPoint(arc, cmd.x1, cmd.y1).x,
                        !.y1 = transformPoint(arc, cmd.x1, cmd.y1).y]
      [] OTHER -> cmd

transformPath(arc, commands) ==
    [i \in 1..Len(commands) |-> transformCommand(arc, commands[i])]

\* EnvelopeTransform.transform
transform(pathData, options) ==
    IF options.arc.given THEN transformPath(options.arc, pathData) ELSE pathData

-----------------------------------------------------------------------------
(* Path synthesis (getD, getSVG) *)

\* The lengths a caller puts in options.envelope.arc are counted like every
\* pixel length of the layout, in pixels times font.unitsPerEm.

\* The box around the outline of a glyph in font units: A and B fill the box
\* of the font, C leaves a left side bearing.
glyphBox(ch) ==
    IF ch = "C" THEN [font.boundingBox EXCEPT !.x1 = 100] ELSE font.boundingBox

\* The outline of a glyph in font units, y upwards: a box of lines for A and
\* C, a box drawn with curves for B, nothing for a glyph that is not visible.
glyphOutline(ch) ==
    LET box == glyphBox(ch)
    IN  CASE ch \in {"A", "C"} ->
                <<MoveTo(box.x1, box.y1), LineTo(box.x2, box.y1), LineTo(box.x2, box.y2),
                  LineTo(box.x1, box.y2), ClosePath>>
          [] ch = "B" ->
                <<MoveTo(box.x1, box.y1), QuadTo(box.x2, box.y1, box.x2, box.y2),
                  CurveTo(box.x2, box.y2, box.x1, box.y2, box.x1, box.y1), ClosePath>>
          [] OTHER -> <<>>

\* Every point (x, y) of the command taken to (tx + sx * x, ty + sy * y).
affine(cmd, sx, sy, tx, ty) ==
    CASE cmd.type \in {"M", "L", "A"} ->
            [cmd EXCEPT !.x = tx + sx * @, !.y = ty + sy * @]
      [] cmd.type = "Q" ->
            [cmd EXCEPT !.x = tx + sx * @, !.y = ty + sy * @,
                        !.x1 = tx + sx * @, !.y1 = ty + sy * @]
      [] cmd.type = "C" ->
            [cmd EXCEPT !.x = tx + sx * @, !.y = ty + sy * @,
                        !.x1 = tx + sx * @, !.y1 = ty + sy * @,
                        !.x2 = tx + sx * @, !.y2 = ty + sy * @]
      [] OTHER -> cmd

\* Glyph.getPath(x, y, fontSize)
glyphGetPath(ch, x, y, fontSize) ==
    [i \in 1..Len(glyphOutline(ch)) |-> affine(glyphOutline(ch)[i], fontSize, -fontSize, x, y)]

\* Font.getPath(text, x, y, fontSize, {kerning, letterSpacing, tracking})
RECURSIVE fontGetPath(_, _, _, _)
fontGetPath(text, x, y, options) ==
    IF text = <<>> THEN <<>>
    ELSE glyphGetPath(Head(text), x, y, fontSizeOf(options))
         \o fontGetPath(Tail(text),
                        x + font.advanceWidth * fontSizeOf(options)
                          + (IF options.kerning /\ Len(text) > 1
                             THEN font.kerningValue * fontSizeOf(options) ELSE 0)
                          + spacingOf(options),
                        y, options)

\* A number written with two decimal places: a hundredth of a pixel is ten
\* font units of the scale.
toFixed2(v) == ((v + (font.unitsPerEm \div 200)) \div (font.unitsPerEm \div 100))
                    * (font.unitsPerEm \div 100)

\* Path.toPathData(2)
toPathData(commands) ==
    [i \in 1..Len(commands) |->
        [type |-> commands[i].type,
         x1 |-> toFixed2(commands[i].x1), y1 |-> toFixed2(commands[i].y1),
         x2 |-> toFixed2(commands[i].x2), y2 |-> toFixed2(commands[i].y2),
         x |-> toFixed2(commands[i].x), y |-> toFixed2(commands[i].y)]]

\* What getD and getMultilineD write into options.envelope.arc before they
\* transform a line laid out with this width, x and baseline.
arcFilled(options, width, x, lineBaseline) ==
    IF options.envelope.given /\ options.envelope.arc.given
    THEN [options EXCEPT !.envelope.arc.textWidth = width,
                         !.envelope.arc.centerX = IF @ = 0 THEN x + (width \div 2) ELSE @,
                         !.envelope.arc.centerY = IF @ = 0 THEN lineBaseline ELSE @,
                         !.envelope.arc.own = {"centerX", "centerY"}]
    ELSE options

\* The path of one line, transformed if options.envelope is there; `filled`
\* is the options after the envelope block has written to them.
enveloped(pathData, filled) ==
    IF filled.envelope.given THEN transform(pathData, filled.envelope) ELSE pathData

\* String.prototype.trim() === ''
isBlank(str) == \A i \in 1..Len(str) : str[i] \in {" ", "\n"}

\* What a call leaves behind: the value it returns or the error it throws,
\* and the caller's options object as the call leaves it.
Outcome(returned, options) == [result |-> returned, options |-> options]

\* mutant: a glyph that is not visible leaves the cursor where it is
RECURSIVE verticalDFromSpaceless(_, _, _, _, _)
verticalDFromSpaceless(text, i, startX, currentY, options) ==
    IF i > Len(text) THEN <<>>
    ELSE LET fontSize == fontSizeOf(options)
             box == glyphBox(text[i])
             charSpacing == (fontSize * font.unitsPerEm) \div 10
             columnWidth == getVerticalWidth(fontSize)
             charWidth == (box.x2 - box.x1) * fontSize
             charHeight == (box.y2 - box.y1) * fontSize
             centerOffset == ((columnWidth - charWidth) \div 2) - box.x1 * fontSize
         IN  IF charCodeAt(text[i]) > 32
             THEN toPathData(glyphGetPath(text[i], startX + centerOffset,
                                          currentY + box.y2 * fontSize, fontSize))
                  \o verticalDFromSpaceless(text, i + 1, startX,
                                   currentY + charHeight + charSpacing + spacingOf(options),
                                   options)
             ELSE verticalDFromSpaceless(text, i + 1, startX, currentY, options)

\* The loop of getVerticalD over the glyphs, from glyph i on.
RECURSIVE verticalDFrom(_, _, _, _, _)
verticalDFrom(text, i, startX, currentY, options) ==
    IF i > Len(text) THEN <<>>
    ELSE LET fontSize == fontSizeOf(options)
             box == glyphBox(text[i])
             charSpacing == (fontSize * font.unitsPerEm) \div 10
             columnWidth == getVerticalWidth(fontSize)
             charWidth == (box.x2 - box.x1) * fontSize
             charHeight == (box.y2 - box.y1) * fontSize
             centerOffset == ((columnWidth - charWidth) \div 2) - box.x1 * fontSize
             spaceHeight == (fontSize * font.unitsPerEm * 6) \div 10
         IN  IF charCodeAt(text[i]) > 32
             THEN toPathData(glyphGetPath(text[i], startX + centerOffset,
                                          currentY + box.y2 * fontSize, fontSize))
                  \o verticalDFrom(text, i + 1, startX,
                                   currentY + charHeight + charSpacing + spacingOf(options),
                                   options)
             ELSE verticalDFrom(text, i + 1, startX,
                                IF font.advanceWidth # 0 THEN currentY + spaceHeight
                                ELSE currentY,
                                options)

getVerticalD(text, options) ==
    verticalDFrom(text, 1, options.x * font.unitsPerEm, options.y * font.unitsPerEm, options)

\* The loop of getVerticalMultilineD over the columns, from column i on.
RECURSIVE verticalColumnsFrom(_, _, _)
verticalColumnsFrom(lines, i, options) ==
    IF i > Len(lines) THEN <<>>
    ELSE (IF isBlank(lines[i].text) THEN <<>>
          ELSE verticalDFrom(lines[i].text, 1, lines[i].x, lines[i].y, options))
         \o verticalColumnsFrom(lines, i + 1, options)

getVerticalMultilineD(text, options) ==
    LET multilineMetrics == getVerticalMultilineMetrics(text, options)
    IN  IF multilineMetrics.threw THEN Outcome(multilineMetrics, options)
        ELSE Outcome(ReturnValue(verticalColumnsFrom(multilineMetrics.value.lines, 1, options)),
                     options)

\* The loop of getMultilineD over the lines, from line i on: the path so far
\* is `combinedPathData`, and `options` is the caller's object as the lines
\* before have left it.
RECURSIVE multilineDFrom(_, _, _, _)
multilineDFrom(lines, i, combinedPathData, options) ==
    IF i > Len(lines) THEN Outcome(ReturnValue(combinedPathData), options)
    ELSE IF isBlank(lines[i].text)
    THEN multilineDFrom(lines, i + 1, combinedPathData, options)
    ELSE multilineDFrom(lines, i + 1,
            combinedPathData
              \o enveloped(toPathData(fontGetPath(lines[i].text, lines[i].x,
                                                  lines[i].baseline, options)),
                           arcFilled(options, lines[i].width, lines[i].x, lines[i].baseline)),
            arcFilled(options, lines[i].width, lines[i].x, lines[i].baseline))

\* mutant: every line is moved by the whole offset of its first character
compensatedToOrigin(lines, fontSize) ==
    LET valid == {i \in 1..Len(lines) : ~isBlank(lines[i].text)}
    IN  [i \in 1..Len(lines) |->
            IF i \in valid
            THEN [lines[i] EXCEPT !.x = @ - glyphBox(lines[i].text[1]).x1 * fontSize]
            ELSE lines[i]]

\* The lines as the compensation for textAlign left leaves them: bbox.x1 of
\* the first character of a line that is not blank is its offset, and the
\* line moves left by its offset less the least offset.
compensated(lines, fontSize) ==
    LET valid == {i \in 1..Len(lines) : ~isBlank(lines[i].text)}
        offsets == {glyphBox(lines[i].text[1]).x1 * fontSize : i \in valid}
        minOffset == CHOOSE m \in offsets : \A o \in offsets : m <= o
    IN  [i \in 1..Len(lines) |->
            IF i \in valid
            THEN [lines[i] EXCEPT
                    !.x = @ - (glyphBox(lines[i].text[1]).x1 * fontSize - minOffset)]
            ELSE lines[i]]

getMultilineD(text, options) ==
    LET multilineMetrics == getMultilineMetrics(text, options)
        textAlign == IF options.textAlign = "" THEN "left" ELSE options.textAlign
    IN  IF multilineMetrics.threw THEN Outcome(multilineMetrics, options)
        ELSE multilineDFrom(
                 IF textAlign = "left"
                 THEN compensated(multilineMetrics.value.lines, fontSizeOf(options))
                 ELSE multilineMetrics.value.lines,
                 1, <<>>, options)

\* getD for a text without a newline, written horizontally.
getSingleLineD(text, options) ==
    LET metrics == getMetrics(text, options)
    IN  IF metrics.threw THEN Outcome(metrics, options)
        ELSE Outcome(
                ReturnValue(
                    enveloped(toPathData(fontGetPath(text, metrics.value.x,
                                                     metrics.value.baseline, options)),
                              arcFilled(options, metrics.value.width, metrics.value.x,
                                        metrics.value.baseline))),
                arcFilled(options, metrics.value.width, metrics.value.x,
                          metrics.value.baseline))

getD(text, options) ==
    LET writingMode == IF options.writingMode = "" THEN "horizontal" ELSE options.writingMode
    IN  IF includes(text, "\n")
        THEN IF writingMode = "vertical" THEN getVerticalMultilineD(text, options)
             ELSE getMultilineD(text, options)
        ELSE IF writingMode = "vertical"
             THEN Outcome(ReturnValue(getVerticalD(text, options)), options)
             ELSE getSingleLineD(text, options)

\* Numbers of JavaScript: the integers, Infinity, -Infinity and NaN.
Finite(n) == [finite |-> TRUE, sign |-> 0, value |-> n]
Infinity == [finite |-> FALSE, sign |-> 1, value |-> 0]
MinusInfinity == [finite |-> FALSE, sign |-> -1, value |-> 0]
NaN == [finite |-> FALSE, sign |-> 0, value |-> 0]

plus(a, b) ==
    IF a.finite /\ b.finite THEN Finite(a.value + b.value)
    ELSE IF a = NaN \/ b = NaN THEN NaN
    ELSE IF a.finite THEN b
    ELSE IF b.finite THEN a
    ELSE IF a = b THEN a
    ELSE NaN

negate(a) == IF a.finite THEN Finite(-a.value) ELSE [a EXCEPT !.sign = -a.sign]

minus(a, b) == plus(a, negate(b))

halved(a) == IF a.finite THEN Finite(a.value \div 2) ELSE a

\* Math.min and Math.max folded over the numbers, from Infinity and -Infinity.
minOver(numbers) ==
    IF numbers = {} THEN Infinity
    ELSE Finite(CHOOSE m \in numbers : \A n \in numbers : m <= n)

maxOver(numbers) ==
    IF numbers = {} THEN MinusInfinity
    ELSE Finite(CHOOSE m \in numbers : \A n \in numbers : m >= n)

\* The x, or the y, of the points calculateBoundingBox looks at.
measured(pathData, x, x1, x2) ==
    UNION {({pathData[i][x]} \cup (IF hasX1(pathData[i]) THEN {pathData[i][x1]} ELSE {})
                             \cup (IF hasX2(pathData[i]) THEN {pathData[i][x2]} ELSE {})) :
           i \in {j \in 1..Len(pathData) : pathData[j].type \in {"M", "L", "C", "Q", "A"}}}

\* The box calculateBoundingBox returns for the least and the greatest it found.
BoundingBox(minX, minY, maxX, maxY) ==
    [x |-> minX, y |-> minY, width |-> minus(maxX, minX), height |-> minus(maxY, minY)]

calculateBoundingBox(pathData) ==
    BoundingBox(minOver(measured(pathData, "x", "x1", "x2")),
                minOver(measured(pathData, "y", "y1", "y2")),
                maxOver(measured(pathData, "x", "x1", "x2")),
                maxOver(measured(pathData, "y", "y1", "y2")))

\* svgpath(pathData).translate(translateX, translateY).toString(); a path
\* with a point to move has a finite bounding box, so the numbers are finite.
translate(pathData, translateX, translateY) ==
    [i \in 1..Len(pathData) |->
        affine(pathData[i], 1, 1, translateX.value, translateY.value)]

\* The document: the numbers of its viewBox and the d of its path.
Svg(boxWidth, boxHeight, finalPathData) ==
    [viewBox |-> <<Finite(0), Finite(0), boxWidth, boxHeight>>, d |-> finalPathData]

\* getSVG from the translation on.
centered(pathData, boundingBox, boxWidth, boxHeight) ==
    Svg(boxWidth, boxHeight,
        translate(pathData,
                  minus(halved(minus(boxWidth, boundingBox.width)), boundingBox.x),
                  minus(halved(minus(boxHeight, boundingBox.height)), boundingBox.y)))

\* getSVG from the padding on.
padded(pathData, boundingBox, padding) ==
    centered(pathData, boundingBox,
             plus(boundingBox.width, plus(padding, padding)),
             plus(boundingBox.height, plus(padding, padding)))

\* getSVG and getMultilineSVG once getD has returned `d`.
assembled(d, options) ==
    IF d.threw THEN Outcome(d, options)
    ELSE Outcome(ReturnValue(padded(d.value, calculateBoundingBox(d.value),
                                    Finite(10 * font.unitsPerEm))),
                 options)

\* getSVG works on a copy of the options, which it may write to; the object
\* of the caller stays as it is.
getSVG(text, options) ==
    assembled(getD(text, [options EXCEPT !.x = 0, !.y = 0,
                                         !.anchor = left \o <<" ">> \o top]).result,
              options)

NoOptions ==
    [fontSize |-> 0, anchor |-> <<>>, writingMode |-> "", textAlign |-> "", x |-> 0, y |-> 0,
     lineHeight |-> 0, letterSpacing |-> 0, tracking |-> 0, kerning |-> TRUE,
     envelope |-> NoEnvelope]

\* no getMetrics call
NoCall == [made |-> FALSE, text |-> <<>>, options |-> NoOptions]

-----------------------------------------------------------------------------
(* FontCache operations *)

\* a fresh FontCache, no request yet
Fresh ==
    /\ cache = <<>>
    /\ totalSize = 0
    /\ now = 0
    /\ loads = EmptyBag
    /\ nextInst = 0
    /\ last = NoLast
    /\ anchorOption = [horizontal |-> <<>>, vertical |-> <<>>]
    /\ result = ReturnValue(<<>>)

Init == Fresh /\ files \in FsConfigs /\ call = NoCall

\* the first existing candidate of the search loop, 0 if there is none
firstExisting(fontFile) ==
    LET searchPath == searchPaths(fontFile)
        found == {i \in 1 .. 4 : searchPath[i] \in files}
    IN  IF found = {} THEN 0 ELSE CHOOSE i \in found : \A j \in found : i <= j

\* mutant: a hit parses the font again and returns the new instance
GetHitReparse(fontFile) ==
    LET cacheKey == CacheKey(fontFile) IN
    /\ BagCardinality(loads) < NumCallers
    /\ Has(cache, cacheKey)
    /\ nextInst < MaxLoads
    /\ nextInst' = nextInst + 1
    /\ \E t \in DateNow :
          /\ now' = t
          /\ cache' = [cache EXCEPT ![IndexOf(cache, cacheKey)].lastAccessed = t,
                                    ![IndexOf(cache, cacheKey)].textToSVG = nextInst + 1]
    /\ last' = Returned(fontFile, "hit", nextInst + 1, JustGot(cacheKey))
    /\ UNCHANGED <<totalSize, files, loads, call, anchorOption, result>>

\* get(fontFile) finds the key in the map: refresh lastAccessed, return the instance
GetHit(fontFile) ==
    LET cacheKey == CacheKey(fontFile) IN
    /\ BagCardinality(loads) < NumCallers
    /\ Has(cache, cacheKey)
    /\ \E t \in DateNow :
          /\ now' = t
          /\ cache' = [cache EXCEPT ![IndexOf(cache, cacheKey)].lastAccessed = t]
    /\ last' = Returned(fontFile, "hit", Entry(cache, cacheKey).textToSVG, JustGot(cacheKey))
    /\ UNCHANGED <<totalSize, files, loads, nextInst, call, anchorOption, result>>

\* get(fontFile) misses and enters load() up to its first await
GetMiss(fontFile) ==
    LET again == last.kind = "clear" /\ CacheKey(fontFile) \in last.keys IN
    /\ BagCardinality(loads) < NumCallers
    /\ ~Has(cache, CacheKey(fontFile))
    /\ nextInst + BagCardinality(loads) < MaxLoads
    /\ loads' = loads (+) SetToBag({IF fontFile # NoFile
                                    THEN Load(fontFile, "resolve", <<>>, 0, again)
                                    ELSE Load(fontFile, "stat", DefaultFontPath, 0, again)})
    /\ UNCHANGED <<cache, totalSize, now, files, nextInst, last, call, anchorOption, result>>

\* mutant: when no candidate exists the default font is loaded instead
ResolveFallback(l) ==
    LET i == firstExisting(l.fontFile) IN
    /\ l \in InFlight
    /\ l.pc = "resolve"
    /\ loads' = Replace(l, [l EXCEPT !.pc = "stat",
                                      !.fontPath = IF i # 0 THEN searchPaths(l.fontFile)[i]
                                                   ELSE DefaultFontPath])
    /\ UNCHANGED <<cache, totalSize, now, files, nextInst, last, call, anchorOption, result>>

\* the search loop of load(): fs.access on the candidates in order, the first
\* that exists becomes fontPath; none exists: load() throws
Resolve(l) ==
    LET i == firstExisting(l.fontFile) IN
    /\ l \in InFlight
    /\ l.pc = "resolve"
    /\ IF i # 0
       THEN /\ loads' = Replace(l, [l EXCEPT !.pc = "stat", !.fontPath = searchPaths(l.fontFile)[i]])
            /\ last' = last
       ELSE /\ loads' = Remove(l)
            /\ last' = Threw(l.fontFile, "Font file not found")
    /\ UNCHANGED <<cache, totalSize, now, files, nextInst, call, anchorOption, result>>

\* fs.stat rejects: load() throws before touching the cache
StatFail(l) ==
    /\ l \in InFlight
    /\ l.pc = "stat"
    /\ l.fontPath \notin files
    /\ loads' = Remove(l)
    /\ last' = Threw(l.fontFile, "ENOENT")
    /\ UNCHANGED <<cache, totalSize, now, files, nextInst, call, anchorOption, result>>

\* fs.stat resolves with fileSize: the headroom check and evictLRU run without suspension
StatWith(l, fileSize) ==
    LET ev == IF totalSize + fileSize > maxSize
              THEN evictLRU(cache, totalSize, fileSize)
              ELSE [cache |-> cache, totalSize |-> totalSize, deleted |-> {}]
    IN  /\ l \in InFlight
        /\ l.pc = "stat"
        /\ l.fontPath \in files
        /\ loads' = Replace(l, [l EXCEPT !.pc = "parse", !.fileSize = fileSize])
        /\ cache' = ev.cache
        /\ totalSize' = ev.totalSize
        /\ last' = IF IsGet(last) /\ CacheKey(last.fontFile) \in ev.deleted
                   THEN [last EXCEPT !.fresh = FALSE] ELSE last
        /\ UNCHANGED <<now, files, nextInst, call, anchorOption, result>>

Stat(l) == \E fileSize \in Sizes : StatWith(l, fileSize)

\* TextToSVG.loadSync rejects: load() throws, the eviction already done stays
ParseFail(l) ==
    /\ l \in InFlight
    /\ l.pc = "parse"
    /\ loads' = Remove(l)
    /\ last' = Threw(l.fontFile, "Failed to load font")
    /\ UNCHANGED <<cache, totalSize, now, files, nextInst, call, anchorOption, result>>

\* mutant: a load that finds its key set meanwhile returns the instance in the map
ParseJoining(l) ==
    /\ l \in InFlight
    /\ l.pc = "parse"
    /\ nextInst' = nextInst + 1
    /\ loads' = Remove(l)
    /\ IF Has(cache, CacheKey(l.fontFile))
       THEN /\ UNCHANGED <<cache, totalSize, now>>
            /\ last' = Returned(l.fontFile, "load",
                                Entry(cache, CacheKey(l.fontFile)).textToSVG, l.again)
       ELSE /\ \E t \in DateNow :
                  /\ now' = t
                  /\ cache' = MapSet(cache, [key |-> CacheKey(l.fontFile),
                                             textToSVG |-> nextInst + 1,
                                             size |-> l.fileSize, lastAccessed |-> t,
                                             fontPath |-> l.fontPath])
            /\ totalSize' = totalSize + l.fileSize
            /\ last' = Returned(l.fontFile, "load", nextInst + 1, l.again)
    /\ UNCHANGED <<files, call, anchorOption, result>>

\* TextToSVG.loadSync resolves: the entry is set and its size added
Parse(l) ==
    /\ l \in InFlight
    /\ l.pc = "parse"
    /\ nextInst' = nextInst + 1
    /\ loads' = Remove(l)
    /\ \E t \in DateNow :
          /\ now' = t
          /\ cache' = MapSet(cache, [key |-> CacheKey(l.fontFile), textToSVG |-> nextInst + 1,
                                     size |-> l.fileSize, lastAccessed |-> t,
                                     fontPath |-> l.fontPath])
    /\ totalSize' = totalSize + l.fileSize
    /\ last' = Returned(l.fontFile, "load", nextInst + 1, l.again)
    /\ UNCHANGED <<files, call, anchorOption, result>>

\* mutant: the map is emptied, the running total is left as it is
ClearMapOnly ==
    /\ cache' = <<>>
    /\ last' = Cleared(Keys(cache))
    /\ UNCHANGED <<totalSize, now, files, loads, nextInst, call, anchorOption, result>>

Clear ==
    /\ cache' = <<>>
    /\ totalSize' = 0
    /\ last' = Cleared(Keys(cache))
    /\ UNCHANGED <<now, files, loads, nextInst, call, anchorOption, result>>

getStats ==
    [count |-> Len(cache),
     totalSize |-> totalSize,
     maxSize |-> maxSize,
     usage |-> LET q == Ratio(totalSize, maxSize) IN Ratio(q.num * 100, q.den),
     fonts |-> [i \in DOMAIN cache |-> [key |-> cache[i].key, size |-> cache[i].size,
                                        lastAccessed |-> cache[i].lastAccessed]]]

Next ==
    \/ \E f \in FontFiles : GetHit(f)
    \/ \E f \in FontFiles : GetMiss(f)
    \/ \E l \in InFlight : Resolve(l)
    \/ \E l \in InFlight : StatFail(l)
    \/ \E l \in InFlight : Stat(l)
    \/ \E l \in InFlight : ParseFail(l)
    \/ \E l \in InFlight : Parse(l)
    \/ Clear

Spec == Init /\ [][Next]_vars

\* Loads one at a time: a get() that misses waits until no load is in flight.
\* The disk may be in any state.
SeqInit == Fresh /\ files \in SUBSET AllPaths /\ call = NoCall

NoLoadInFlight == loads = EmptyBag

SeqNext ==
    \/ \E f \in FontFiles : GetHit(f)
    \/ \E f \in FontFiles : NoLoadInFlight /\ GetMiss(f)
    \/ \E l \in InFlight : Resolve(l)
    \/ \E l \in InFlight : StatFail(l)
    \/ \E l \in InFlight : Stat(l)
    \/ \E l \in InFlight : ParseFail(l)
    \/ \E l \in InFlight : Parse(l)
    \/ Clear

SeqSpec == SeqInit /\ [][SeqNext]_vars

TypeOK ==
    /\ totalSize \in Nat
    /\ now \in 0 .. MaxClock
    /\ \A i \in DOMAIN cache : cache[i].size \in Sizes

-----------------------------------------------------------------------------
(* The HTTP layer *)

\* String.prototype.includes(searchString)
includesString(str, searchString) ==
    \E i \in 1..(Len(str) - Len(searchString) + 1) :
        SubSeq(str, i, i + Len(searchString) - 1) = searchString

\* The message of the error a get() throws, character by character.  A
\* segment of the requested path stands as one character, and so does the
\* text of the error that loadSync or fs.stat caught, which the repository
\* does not fix.
messageOf(thrown) ==
    CASE thrown.error = "Font file not found" ->
            <<"F", "o", "n", "t", " ", "f", "i", "l", "e", " ", "n", "o", "t", " ", "f",
              "o", "u", "n", "d", ":", " ">>
            \o join([i \in 1..Len(thrown.fontFile) |-> <<thrown.fontFile[i]>>], <<"/">>)
      [] thrown.error = "Failed to load font" ->
            <<"F", "a", "i", "l", "e", "d", " ", "t", "o", " ", "l", "o", "a", "d", " ",
              "f", "o", "n", "t", ":", " ">>
            \o <<"error">>
      [] OTHER -> <<thrown.error>>

\* handleFontError: the response it makes of the error, or the error thrown on
handleFontError(thrown) ==
    IF includesString(messageOf(thrown),
                      <<"F", "o", "n", "t", " ", "n", "o", "t", " ", "f", "o", "u", "n",
                        "d">>)
    THEN [rethrown |-> FALSE, status |-> 404, error |-> "font_not_found"]
    ELSE IF includesString(messageOf(thrown),
                           <<"I", "n", "v", "a", "l", "i", "d", " ", "f", "o", "n", "t">>)
    THEN [rethrown |-> FALSE, status |-> 400, error |-> "invalid_font"]
    ELSE [rethrown |-> TRUE, status |-> 0, error |-> ""]

\* app.onError
onError(err) == [rethrown |-> TRUE, status |-> 500, error |-> "internal_server_error"]

\* the routes of svgRoutes as the application mounts them
Routes == {<<"api", "svg">>, <<"api", "svg", "path">>, <<"api", "svg", "metrics">>}

\* What a handler of svgRoutes answers when its fontCache.get has thrown: all
\* three catch the error and pass it to handleFontError.
answerTo(route, thrown) ==
    IF handleFontError(thrown).rethrown THEN onError(thrown) ELSE handleFontError(thrown)

-----------------------------------------------------------------------------
(* Calls of getMetrics *)

\* The words an anchor option is made of: the seven tokens, two of them also
\* in another case, and a word that is no token.
Pieces ==
    {left, center, right, baseline, top, bottom, middle,
     <<"L", "e", "f", "t">>, <<"T", "O", "P">>, <<"l", "e", "f">>}

Anchors == {join(words, <<" ">>) : words \in UNION {[1..n -> Pieces] : n \in 0..MaxPieces}}

Texts == {<<"A">>, <<"A", " ", "B">>, <<"A", "B", "\n", "C">>}

\* The remaining options: absent, or given in part or in full.
Styles ==
    {[fontSize |-> 0, x |-> 0, y |-> 0, kerning |-> TRUE,
      letterSpacing |-> 0, tracking |-> 0, lineHeight |-> 0],
     [fontSize |-> 100, x |-> 0, y |-> 0, kerning |-> TRUE,
      letterSpacing |-> 0, tracking |-> 0, lineHeight |-> 0],
     [fontSize |-> 100, x |-> 10, y |-> 20, kerning |-> FALSE,
      letterSpacing |-> 0, tracking |-> 100, lineHeight |-> 20],
     [fontSize |-> 0, x |-> 10, y |-> 20, kerning |-> TRUE,
      letterSpacing |-> 1, tracking |-> 100, lineHeight |-> 0]}

Options ==
    {[fontSize |-> style.fontSize, anchor |-> a, writingMode |-> writingMode,
      textAlign |-> textAlign, x |-> style.x, y |-> style.y,
      lineHeight |-> style.lineHeight, letterSpacing |-> style.letterSpacing,
      tracking |-> style.tracking, kerning |-> style.kerning] :
        a \in Anchors, writingMode \in {"", "vertical"},
        textAlign \in {"", "center", "right"}, style \in Styles}

\* getMetrics is called once, with any text and options
MetricsInit ==
    /\ Fresh
    /\ files = {}
    /\ call \in {[made |-> FALSE, text |-> text, options |-> options] :
                    text \in Texts, options \in Options}

CallGetMetrics ==
    /\ ~call.made
    /\ call' = [call EXCEPT !.made = TRUE]
    /\ anchorOption' = parseAnchorOption(call.options.anchor)
    /\ result' = getMetrics(call.text, call.options)
    /\ UNCHANGED <<cache, totalSize, now, files, loads, nextInst, last>>

MetricsNext == CallGetMetrics

MetricsSpec == MetricsInit /\ [][MetricsNext]_vars

\* Calls of getMetrics with every short text and a well-formed anchor.
Alphabet == {"A", "B", " ", "\n"}

LayoutTexts == UNION {[1..n -> Alphabet] : n \in 1..MaxTextLen}

LayoutAnchors ==
    {<<>>} \cup {h \o <<" ">> \o v : h \in {left, center, right},
                                      v \in {baseline, top, middle, bottom}}

LayoutStyles ==
    {[fontSize |-> 0, x |-> 0, y |-> 0, kerning |-> TRUE,
      letterSpacing |-> 0, tracking |-> 0, lineHeight |-> 0],
     [fontSize |-> 100, x |-> 0, y |-> 0, kerning |-> TRUE,
      letterSpacing |-> 0, tracking |-> 0, lineHeight |-> 0],
     [fontSize |-> 50, x |-> 0, y |-> 0, kerning |-> TRUE,
      letterSpacing |-> 0, tracking |-> 0, lineHeight |-> 0],
     [fontSize |-> 100, x |-> 10, y |-> 20, kerning |-> TRUE,
      letterSpacing |-> 0, tracking |-> 0, lineHeight |-> 0],
     [fontSize |-> 100, x |-> 10, y |-> 20, kerning |-> FALSE,
      letterSpacing |-> 0, tracking |-> 100, lineHeight |-> 20],
     [fontSize |-> 50, x |-> 0, y |-> 0, kerning |-> TRUE,
      letterSpacing |-> 1, tracking |-> 100, lineHeight |-> 8],
     [fontSize |-> 100, x |-> 0, y |-> 0, kerning |-> TRUE,
      letterSpacing |-> 2, tracking |-> 100, lineHeight |-> 0]}

LayoutOptions ==
    {[fontSize |-> style.fontSize, anchor |-> a, writingMode |-> writingMode,
      textAlign |-> textAlign, x |-> style.x, y |-> style.y,
      lineHeight |-> style.lineHeight, letterSpacing |-> style.letterSpacing,
      tracking |-> style.tracking, kerning |-> style.kerning] :
        a \in LayoutAnchors, writingMode \in {"", "vertical"},
        textAlign \in {"", "center", "right"}, style \in LayoutStyles}

LayoutInit ==
    /\ Fresh
    /\ files = {}
    /\ call \in {[made |-> FALSE, text |-> text, options |-> options] :
                    text \in LayoutTexts, options \in LayoutOptions}

LayoutNext == CallGetMetrics

LayoutSpec == LayoutInit /\ [][LayoutNext]_vars

\* Calls of EnvelopeTransform.transform with every short path.
ArcCommands ==
    {MoveTo(0, 0), LineTo(100, 30), QuadTo(100, 30, 200, 0),
     CurveTo(0, 30, 100, -30, 200, 0), ArcTo(200, 30), ClosePath}

ArcPaths == UNION {[1..n -> ArcCommands] : n \in 0..MaxCommands}

ArcOptions ==
    {NoEnvelope} \cup
    {[given |-> TRUE,
      arc |-> [given |-> TRUE, angle |-> angle, textWidth |-> textWidth,
               centerX |-> centerX, centerY |-> centerY,
               own |-> {"centerX", "centerY"}]] :
        angle \in {0, 180, -180}, textWidth \in {0, 200},
        centerX \in {0, 7}, centerY \in {0, -5}}

TransformInit ==
    /\ Fresh
    /\ files = {}
    /\ call \in {[made |-> FALSE, pathData |-> pathData, options |-> options] :
                    pathData \in ArcPaths, options \in ArcOptions}

CallTransform ==
    /\ ~call.made
    /\ call' = [call EXCEPT !.made = TRUE]
    /\ result' = ReturnValue(transform(call.pathData, call.options))
    /\ UNCHANGED <<cache, totalSize, now, files, loads, nextInst, last, anchorOption>>

TransformNext == CallTransform

TransformSpec == TransformInit /\ [][TransformNext]_vars

\* Calls of getD, one after the other, with one options object.
PathAlphabet == {"B", " ", "\n"}

PathTexts == UNION {[1..n -> PathAlphabet] : n \in 1..MaxTextLen}

PathEnvelopes ==
    {NoEnvelope, [given |-> TRUE, arc |-> NoArc]} \cup
    {[given |-> TRUE,
      arc |-> [given |-> TRUE, angle |-> arc[1], textWidth |-> 0,
               centerX |-> arc[2], centerY |-> arc[3], own |-> arc[4]]] :
        arc \in {<<0, 0, 0, {}>>, <<0, 0, 0, {"centerX", "centerY"}>>,
                 <<0, 7000, -5000, {"centerX", "centerY"}>>, <<180, 0, 0, {}>>}}

PathStyles ==
    {[fontSize |-> 0, anchor |-> <<>>, x |-> 0, y |-> 0, kerning |-> TRUE,
      letterSpacing |-> 0, tracking |-> 0, lineHeight |-> 0],
     [fontSize |-> 50, anchor |-> center \o <<" ">> \o middle, x |-> 10, y |-> 20,
      kerning |-> FALSE, letterSpacing |-> 1, tracking |-> 100, lineHeight |-> 8]}

PathOptions ==
    {[fontSize |-> s.fontSize, anchor |-> s.anchor, writingMode |-> w, textAlign |-> t,
      x |-> s.x, y |-> s.y, lineHeight |-> s.lineHeight,
      letterSpacing |-> s.letterSpacing, tracking |-> s.tracking, kerning |-> s.kerning,
      envelope |-> e] :
        s \in PathStyles, w \in {"", "vertical"}, t \in {"", "center"}, e \in PathEnvelopes}

\* The calls the font and the arc are asked about: the box of a glyph is that
\* of a visible glyph, and a bent arc meets points a whole number of quarter
\* turns along it.
synthesizable(text, options) ==
    LET lines == split(text, "\n")
        horizontal == options.writingMode # "vertical"
        bent == options.envelope.given /\ options.envelope.arc.given
                    /\ options.envelope.arc.angle # 0
    IN  /\ horizontal /\ includes(text, "\n") /\ options.textAlign = "" =>
                \A i \in 1..Len(lines) :
                    IF isBlank(lines[i]) THEN TRUE ELSE charCodeAt(lines[i][1]) > 32
        /\ horizontal /\ bent =>
                /\ spacingOf(options) = 0
                /\ options.x = 0
                /\ \A i \in 1..Len(lines) : Len(lines[i]) <= 2

PathInit ==
    /\ Fresh
    /\ files = {}
    /\ call \in {[made |-> 0, text |-> <<>>, options |-> options, object |-> options] :
                    options \in PathOptions}

CallGetD ==
    \E text \in PathTexts :
        LET outcome == getD(text, call.object)
        IN  /\ call.made < MaxCalls
            /\ synthesizable(text, call.object)
            /\ call' = [call EXCEPT !.made = @ + 1, !.text = text,
                                    !.object = outcome.options]
            /\ result' = outcome.result
            /\ UNCHANGED <<cache, totalSize, now, files, loads, nextInst, last, anchorOption>>

PathNext == CallGetD

PathSpec == PathInit /\ [][PathNext]_vars

\* Calls of getD for lines whose first glyphs start at different distances
\* from their origin.
AlignLines == {<<>>, <<" ">>, <<"B">>, <<"C">>, <<"C", "B">>}

AlignTexts == {join(lines, <<"\n">>) : lines \in UNION {[1..n -> AlignLines] : n \in 2..MaxLines}}

AlignOptions ==
    {[fontSize |-> s.fontSize, anchor |-> s.anchor, writingMode |-> "", textAlign |-> t,
      x |-> s.x, y |-> s.y, lineHeight |-> s.lineHeight,
      letterSpacing |-> s.letterSpacing, tracking |-> s.tracking, kerning |-> s.kerning,
      envelope |-> NoEnvelope] :
        s \in PathStyles, t \in {"", "left", "center", "right"}}

AlignInit ==
    /\ Fresh
    /\ files = {}
    /\ call \in {[made |-> FALSE, text |-> text, options |-> options] :
                    text \in AlignTexts, options \in AlignOptions}

CallGetMultilineD ==
    /\ ~call.made
    /\ call' = [call EXCEPT !.made = TRUE]
    /\ result' = getD(call.text, call.options).result
    /\ UNCHANGED <<cache, totalSize, now, files, loads, nextInst, last, anchorOption>>

AlignNext == CallGetMultilineD

AlignSpec == AlignInit /\ [][AlignNext]_vars

\* Calls of getSVG.
SvgInit ==
    /\ Fresh
    /\ files = {}
    /\ call \in {[made |-> FALSE, text |-> text, options |-> options] :
                    text \in PathTexts, options \in PathOptions}
    /\ synthesizable(call.text, call.options)

CallGetSVG ==
    /\ ~call.made
    /\ call' = [call EXCEPT !.made = TRUE]
    /\ result' = getSVG(call.text, call.options).result
    /\ UNCHANGED <<cache, totalSize, now, files, loads, nextInst, last, anchorOption>>

SvgNext == CallGetSVG

SvgSpec == SvgInit /\ [][SvgNext]_vars

\* Calls of sanitizePath, and the candidates load() makes of what it returns.
Segments == {"..", ".", "", "a", "d"}

RequestedFiles == UNION {[1..n -> Segments] : n \in 1..MaxSegments}

SanitizeInit ==
    /\ Fresh
    /\ files = {}
    /\ call \in {[made |-> FALSE, fontFile |-> fontFile] : fontFile \in RequestedFiles}

CallSanitizePath ==
    /\ ~call.made
    /\ call' = [call EXCEPT !.made = TRUE]
    /\ result' = ReturnValue([sanitized |-> sanitizePath(call.fontFile),
                              searchPaths |-> searchPaths(call.fontFile)])
    /\ UNCHANGED <<cache, totalSize, now, files, loads, nextInst, last, anchorOption>>

SanitizeNext == CallSanitizePath

SanitizeSpec == SanitizeInit /\ [][SanitizeNext]_vars

-----------------------------------------------------------------------------
(* Properties of the FontCache *)

\* C1: whenever no load is in flight, totalSize is the sum of the sizes of
\* the entries in the map, also after loads that overlapped or failed.
C1_AccountingInvariant ==
    NoLoadInFlight => totalSize = SumSizes(cache)

\* C2: with loads one at a time, a load that succeeds leaves totalSize <= maxSize,
\* unless the font it loaded is larger than maxSize: then the map holds that
\* entry alone and totalSize is its size.
C2_ByteCeiling ==
    [][\A l \in InFlight : Parse(l) =>
          IF l.fileSize <= maxSize
          THEN totalSize' <= maxSize
          ELSE /\ Len(cache') = 1
               /\ cache'[1].key = CacheKey(l.fontFile)
               /\ cache'[1].size = l.fileSize
               /\ totalSize' = l.fileSize]_vars

\* C2 witness: a font larger than maxSize has been loaded into a cache that held
\* other fonts before, and is now the only entry.
C2_Witness ==
    /\ last.kind = "load"
    /\ nextInst >= 2
    /\ Len(cache) = 1
    /\ cache[1].size > maxSize
    /\ totalSize = cache[1].size

\* the sizes of the entries of c at the indices in S, added up
RECURSIVE SizeOf(_, _)
SizeOf(c, S) ==
    IF S = {} THEN 0
    ELSE LET i == CHOOSE j \in S : TRUE IN c[i].size + SizeOf(c, S \ {i})

\* C3: a load whose size fits next to totalSize evicts nothing; otherwise the
\* evicted entries are the shortest prefix, in ascending lastAccessed order,
\* whose removal makes room (all entries if none does): no evicted entry is
\* newer than an entry that stays, what is evicted makes room or is everything,
\* and without the newest evicted entry there would be no room. totalSize
\* goes down by the evicted sizes. 200 MiB cached, 100 MiB loaded: 200 MiB goes.
C3_LruEviction ==
    [][\A l \in InFlight : \A newSize \in Sizes : StatWith(l, newSize) =>
          LET evicted == {i \in DOMAIN cache : ~Has(cache', cache[i].key)}
              Fits(S) == totalSize - SizeOf(cache, S) + newSize <= maxSize
          IN  /\ cache' = SelectSeq(cache, LAMBDA e : Has(cache', e.key))
              /\ totalSize' = totalSize - SizeOf(cache, evicted)
              /\ totalSize + newSize <= maxSize => evicted = {}
              /\ \A i \in evicted : \A j \in DOMAIN cache \ evicted :
                    cache[i].lastAccessed <= cache[j].lastAccessed
              /\ Fits(evicted) \/ evicted = DOMAIN cache
              /\ evicted # {} =>
                    \E i \in evicted :
                       /\ \A k \in evicted : cache[k].lastAccessed <= cache[i].lastAccessed
                       /\ ~Fits(evicted \ {i})
              /\ (Len(cache) = 1 /\ cache[1].size = 200 * MiB /\ totalSize = 200 * MiB
                    /\ newSize = 100 * MiB) => (cache' = <<>> /\ totalSize' = 0)]_vars

\* C3 witness: 200 MiB was loaded, then 100 MiB: one entry of 100 MiB is left.
C3_Witness ==
    /\ last.kind = "load"
    /\ nextInst = 2
    /\ Len(cache) = 1
    /\ cache[1].textToSVG = 2
    /\ cache[1].size = 100 * MiB
    /\ totalSize = 100 * MiB

\* C4: a get() of the key that the get() before it returned, nothing evicted or
\* cleared in between, is a hit that returns the same instance; a hit changes
\* the lastAccessed of its entry and nothing else: totalSize, the keys, their
\* order and all other entries stay.
C4_IdempotentAcquire ==
    /\ [](\A f \in FontFiles : JustGot(CacheKey(f)) =>
             Has(cache, CacheKey(f)) /\ Entry(cache, CacheKey(f)).textToSVG = last.inst)
    /\ [][\A f \in FontFiles : GetHit(f) =>
             /\ JustGot(CacheKey(f)) => last'.inst = last.inst
             /\ totalSize' = totalSize
             /\ Len(cache') = Len(cache)
             /\ \A i \in DOMAIN cache :
                   IF cache[i].key = CacheKey(f)
                   THEN cache'[i] = [cache[i] EXCEPT !.lastAccessed = cache'[i].lastAccessed]
                   ELSE cache'[i] = cache[i]]_vars

\* C4 witness: a hit right after a get() of the same key, other fonts cached too.
C4_Witness ==
    /\ last.kind = "hit"
    /\ last.again
    /\ Len(cache) >= 2
    /\ Entry(cache, CacheKey(last.fontFile)).textToSVG = last.inst

\* C5: with loads one at a time getStats() reports count = the number of
\* entries and usage = totalSize / maxSize x 100, and usage is within 0..100
\* unless the map holds one font alone that is larger than maxSize.
C5_Stats ==
    LET s == getStats IN
    /\ s.count = Cardinality(Keys(cache))
    /\ s.usage.num * (maxSize \div MiB) = (totalSize \div MiB) * 100 * s.usage.den
    /\ \/ 0 <= s.usage.num /\ s.usage.num <= 100 * s.usage.den
       \/ Len(cache) = 1 /\ cache[1].size > maxSize

\* C5 witness: two fonts cached after an eviction, usage strictly between 0 and 100.
C5_Witness ==
    /\ NoLoadInFlight
    /\ getStats.count = 2
    /\ nextInst = 3
    /\ last.kind = "load"
    /\ 0 < getStats.usage.num
    /\ getStats.usage.num < 100 * getStats.usage.den

\* C6: after clear() the map is empty and totalSize is 0, whatever came before;
\* a get() issued then for a key that was cached is a miss, and its load adds
\* the font's size to totalSize once and leaves one entry for the key.
C6_Clear ==
    /\ [](last.kind = "clear" =>
             /\ cache = <<>>
             /\ totalSize = 0
             /\ \A f \in FontFiles : CacheKey(f) \in last.keys => ~Has(cache, CacheKey(f)))
    /\ [][\A l \in InFlight : (l.again /\ Parse(l)) =>
             /\ totalSize' = totalSize + l.fileSize
             /\ Cardinality({i \in DOMAIN cache' : cache'[i].key = CacheKey(l.fontFile)}) = 1
             /\ Entry(cache', CacheKey(l.fontFile)).size = l.fileSize]_vars

\* C6 witness: a font cached before a clear() has been loaded again after it.
C6_Witness ==
    /\ last.kind = "load"
    /\ last.again
    /\ Has(cache, CacheKey(last.fontFile))
    /\ totalSize = Entry(cache, CacheKey(last.fontFile)).size

\* none of the four candidate paths of fontFile exists
NoCandidate(fontFile) == \A i \in 1 .. 4 : searchPaths(fontFile)[i] \notin files

\* C7: a get() of a font identifier none of whose four candidates exists is
\* never a hit, and its load ends by throwing "Font file not found" with the
\* map and totalSize as they were.
C7_FontNotFound ==
    [][\A f \in FontFiles \ {NoFile} : NoCandidate(f) =>
          /\ ~GetHit(f)
          /\ GetMiss(f) => cache' = cache /\ totalSize' = totalSize
          /\ \A l \in InFlight :
                (l.fontFile = f /\ (Resolve(l) \/ StatFail(l) \/ Stat(l) \/ ParseFail(l) \/ Parse(l))) =>
                   /\ loads' = Remove(l)
                   /\ last' = Threw(f, "Font file not found")
                   /\ cache' = cache
                   /\ totalSize' = totalSize]_vars

\* C7 witness: a get() has thrown "Font file not found" while fonts are cached.
C7_Witness ==
    /\ last.kind = "throw"
    /\ last.error = "Font file not found"
    /\ NoCandidate(last.fontFile)
    /\ cache # <<>>
    /\ totalSize = SumSizes(cache)

\* C8: the font loaded for an identifier is the file at the first of its four
\* candidates that exists: fonts/<path>, uploads/<path>, fonts/<basename>,
\* uploads/<basename>.
C8_ResolutionOrder ==
    \A i \in DOMAIN cache :
       cache[i].key # CacheKey(NoFile) =>
          LET sanitized == sanitizePath(cache[i].key)
              candidates == << <<"fonts">> \o sanitized,
                               <<"uploads">> \o sanitized,
                               <<"fonts", sanitized[Len(sanitized)]>>,
                               <<"uploads", sanitized[Len(sanitized)]>> >>
          IN  \E n \in 1 .. 4 :
                 /\ cache[i].fontPath = candidates[n]
                 /\ candidates[n] \in files
                 /\ \A m \in 1 .. n - 1 : candidates[m] \notin files

\* C8 witness: only the fourth candidate exists and it is the one loaded.
C8_Witness ==
    \E i \in DOMAIN cache :
       /\ cache[i].key = <<"d", "a.ttf">>
       /\ cache[i].fontPath = <<"uploads", "a.ttf">>
       /\ files \cap {<<"fonts", "d", "a.ttf">>, <<"uploads", "d", "a.ttf">>, <<"fonts", "a.ttf">>} = {}

-----------------------------------------------------------------------------
(* Properties of the anchor option *)

\* The token occurs in str at position i, in whatever case it is written.
OccursAt(str, i, token) ==
    /\ i + Len(token) <= Len(str) + 1
    /\ [k \in 1..Len(token) |-> toLowerCase(str[i + k - 1])] = token

\* What the axis with these tokens takes from str: the token occurring first,
\* as it is written in str, and the default if none occurs.
FirstToken(str, tokens, default) ==
    LET occurrences == {i \in 1..Len(str) : \E t \in tokens : OccursAt(str, i, t)}
    IN  IF occurrences = {} THEN default
        ELSE LET i == CHOOSE o \in occurrences : \A p \in occurrences : o <= p
                 t == CHOOSE u \in tokens : OccursAt(str, i, u)
             IN  SubSeq(str, i, i + Len(t) - 1)

\* C9: parseAnchorOption takes, for each axis on its own, the first token that
\* occurs in the anchor string (left, center, right; baseline, top, bottom,
\* middle; in any case, as written), and 'left' respectively 'baseline' for
\* an axis of which no token occurs, so an empty or absent anchor is
\* 'left baseline'.
C9_ParseAnchorOption ==
    call.made =>
        /\ anchorOption.horizontal
             = FirstToken(call.options.anchor, {left, center, right}, left)
        /\ anchorOption.vertical
             = FirstToken(call.options.anchor, {baseline, top, bottom, middle}, baseline)
        /\ call.options.anchor = <<>> =>
             anchorOption = [horizontal |-> left, vertical |-> baseline]

\* anchor 'right left': two horizontal tokens, right first, and no vertical one
C9_Witness ==
    /\ call.made
    /\ call.options.anchor = right \o <<" ">> \o left
    /\ anchorOption = [horizontal |-> right, vertical |-> baseline]

(* Properties of getMetrics *)

LayoutMode ==
    <<IF includes(call.text, "\n") THEN "multi-line" ELSE "single-line",
      IF call.options.writingMode = "vertical" THEN "vertical" ELSE "horizontal">>

\* C10: in each of the four layout modes getMetrics throws 'Unknown anchor
\* option' when the token parseAnchorOption took for an axis is not one of the
\* lowercase literals, and returns when both tokens are lowercase.
C10_UnknownAnchorOption ==
    call.made =>
        IF /\ anchorOption.horizontal \in {left, center, right}
           /\ anchorOption.vertical \in {baseline, top, bottom, middle}
        THEN ~result.threw
        ELSE /\ result.threw
             /\ result.message[1] = "Unknown anchor option: "
             /\ result.message[2] \in {anchorOption.horizontal, anchorOption.vertical}

\* two lines, horizontal, aligned left by default, anchor 'left TOP': the lines are
\* measured with 'left top', the block's switch throws
C10_Witness ==
    /\ call.made
    /\ LayoutMode = <<"multi-line", "horizontal">>
    /\ call.options.textAlign = ""
    /\ call.options.anchor = left \o <<" ">> \o <<"T", "O", "P">>
    /\ result.threw
    /\ result.message = <<"Unknown anchor option: ", <<"T", "O", "P">>>>

(* Properties of the layout *)

\* The call is one for a single line written horizontally.
SingleLineHorizontal ==
    /\ call.made
    /\ ~includes(call.text, "\n")
    /\ call.options.writingMode # "vertical"

\* The options that change the width are absent.
DefaultSpacing ==
    /\ call.options.kerning
    /\ call.options.letterSpacing = 0
    /\ call.options.tracking = 0

C12_SingleLineAnchoring ==
    SingleLineHorizontal =>
        LET m == result.value
            X == call.options.x * font.unitsPerEm
            Y == call.options.y * font.unitsPerEm
            isExample == /\ Len(call.text) = 1
                         /\ DefaultSpacing
                         /\ call.options.fontSize = 100
                         /\ call.options.x = 0
                         /\ call.options.y = 0
        IN  /\ ~result.threw
            /\ anchorOption.horizontal = left => m.x = X
            /\ anchorOption.horizontal = center => 2 * (X - m.x) = m.width
            /\ anchorOption.horizontal = right => X - m.x = m.width
            /\ anchorOption.vertical = baseline => Y - m.y = m.ascender
            /\ anchorOption.vertical = top => m.y = Y
            /\ anchorOption.vertical = middle => 2 * (Y - m.y) = m.height
            /\ anchorOption.vertical = bottom => Y - m.y = m.height
            /\ m.baseline = m.y + m.ascender
            /\ (isExample /\ call.options.anchor = left \o <<" ">> \o baseline) =>
                 /\ m.x = 0
                 /\ m.y = -80 * font.unitsPerEm
                 /\ m.baseline = 0
                 /\ m.width = 60 * font.unitsPerEm
                 /\ m.height = 100 * font.unitsPerEm
            /\ (isExample /\ call.options.anchor = center \o <<" ">> \o middle) =>
                 /\ m.x = -30 * font.unitsPerEm
                 /\ m.y = -50 * font.unitsPerEm
                 /\ m.baseline = 30 * font.unitsPerEm
                 /\ m.width = 60 * font.unitsPerEm
                 /\ m.height = 100 * font.unitsPerEm

C12_Witness ==
    /\ SingleLineHorizontal
    /\ call.text = <<"A">>
    /\ call.options.anchor = center \o <<" ">> \o middle
    /\ call.options.fontSize = 100
    /\ call.options.x = 0
    /\ DefaultSpacing
    /\ result.value.x = -30 * font.unitsPerEm
    /\ result.value.baseline = 30 * font.unitsPerEm

\* The call of the example: "A\nB" at fontSize 100 and x = y = 0, written
\* horizontally, with the default lineHeight, alignment and anchor.
IsTwoLineExample ==
    /\ call.made
    /\ call.text = <<"A", "\n", "B">>
    /\ call.options.writingMode # "vertical"
    /\ call.options.fontSize = 100
    /\ call.options.lineHeight = 0
    /\ call.options.textAlign = ""
    /\ call.options.anchor = <<>>
    /\ call.options.x = 0
    /\ call.options.y = 0
    /\ DefaultSpacing

\* C13 as stated: the example gives lines[0].y = 0, equal to the block's y,
\* lines[1].y = 120, each line's baseline = its y + 80, and the height 220.
C13_TwoLinesAsStated ==
    IsTwoLineExample =>
        LET m == result.value
        IN  /\ ~result.threw
            /\ m.lines[1].y = 0
            /\ m.lines[1].y = m.y
            /\ m.lines[2].y = 120 * font.unitsPerEm
            /\ \A i \in 1..2 : m.lines[i].baseline = m.lines[i].y + 80 * font.unitsPerEm
            /\ m.height = 220 * font.unitsPerEm

\* C13, amended: the default anchor is the baseline, so the block and its
\* first line have y = -80 and the second line has y = 40; each line's
\* baseline = its y + 80 (0 and 120), and the height is 220.
C13_TwoLines ==
    IsTwoLineExample =>
        LET m == result.value
        IN  /\ ~result.threw
            /\ Len(m.lines) = 2
            /\ m.lines[1].y = -80 * font.unitsPerEm
            /\ m.lines[1].y = m.y
            /\ m.lines[2].y = 40 * font.unitsPerEm
            /\ \A i \in 1..2 : m.lines[i].baseline = m.lines[i].y + 80 * font.unitsPerEm
            /\ m.lines[1].baseline = 0
            /\ m.lines[2].baseline = 120 * font.unitsPerEm
            /\ m.height = 220 * font.unitsPerEm

C13_Witness ==
    /\ IsTwoLineExample
    /\ result.value.lines[2].text = <<"B">>
    /\ result.value.lines[2].y = 40 * font.unitsPerEm

\* The call is one for several lines written horizontally.
MultiLineHorizontal ==
    /\ call.made
    /\ includes(call.text, "\n")
    /\ call.options.writingMode # "vertical"

\* lineHeight x fontSize, the default lineHeight being 1.2
LH ==
    IF call.options.lineHeight = 0
    THEN 12 * (IF call.options.fontSize = 0 THEN 72 ELSE call.options.fontSize) * 100
    ELSE call.options.lineHeight
            * (IF call.options.fontSize = 0 THEN 72 ELSE call.options.fontSize) * 100

\* C14: for several lines written horizontally the block's width is the
\* largest line width and its height (lineCount - 1) x lineHeight x fontSize
\* + the first line's height; line i (from 0) has y = blockY + i x lineHeight
\* x fontSize and baseline = y + ascender; its x is blockX for textAlign left,
\* blockX + (totalWidth - lineWidth) / 2 for center and blockX + totalWidth -
\* lineWidth for right, so every line lies within the block's width.
C14_MultiLineLayout ==
    MultiLineHorizontal =>
        LET m == result.value
            n == Len(m.lines)
        IN  /\ ~result.threw
            /\ \A i \in 1..n : m.lines[i].width <= m.width
            /\ \E i \in 1..n : m.lines[i].width = m.width
            /\ m.height = (n - 1) * LH + m.lines[1].height
            /\ \A i \in 1..n :
                 /\ m.lines[i].y = m.y + (i - 1) * LH
                 /\ m.lines[i].baseline = m.lines[i].y + m.lines[i].ascender
                 /\ call.options.textAlign \in {"", "left"} => m.lines[i].x = m.x
                 /\ call.options.textAlign = "center" =>
                      2 * (m.lines[i].x - m.x) = m.width - m.lines[i].width
                 /\ call.options.textAlign = "right" =>
                      m.lines[i].x = m.x + m.width - m.lines[i].width
                 /\ m.x <= m.lines[i].x
                 /\ m.lines[i].x + m.lines[i].width <= m.x + m.width

\* "AB\n" aligned right: the empty second line is at the block's right edge
C14_Witness ==
    /\ MultiLineHorizontal
    /\ call.text = <<"A", "B", "\n">>
    /\ call.options.textAlign = "right"
    /\ result.value.width > 0
    /\ result.value.lines[1].x = result.value.x
    /\ result.value.lines[2].x = result.value.x + result.value.width

\* C15: getMetrics returns lines exactly when the text holds a line break;
\* there are then (number of line breaks + 1) of them, line i carries the
\* text of input line i, in order and empty lines included, and the ascender
\* and descender returned are those of the first and of the last line, in
\* both writing modes.
C15_Lines ==
    call.made =>
        LET m == result.value
            breaks == {i \in 1..Len(call.text) : call.text[i] = "\n"}
        IN  /\ ~result.threw
            /\ (Len(m.lines) > 0) <=> (breaks # {})
            /\ breaks # {} =>
                 /\ Len(m.lines) = Cardinality(breaks) + 1
                 /\ \A i \in 1..Len(m.lines) : ~includes(m.lines[i].text, "\n")
                 /\ join([i \in 1..Len(m.lines) |-> m.lines[i].text], <<"\n">>) = call.text
                 /\ m.ascender = m.lines[1].ascender
                 /\ m.descender = m.lines[Len(m.lines)].descender

\* "B\n\n" in columns: three lines, the last two empty
C15_Witness ==
    /\ call.made
    /\ call.text = <<"B", "\n", "\n">>
    /\ call.options.writingMode = "vertical"
    /\ Len(result.value.lines) = 3
    /\ result.value.lines[1].text = <<"B">>
    /\ result.value.lines[2].text = <<>>
    /\ result.value.lines[3].text = <<>>

\* The call is one for several columns written vertically.
MultiLineVertical ==
    /\ call.made
    /\ includes(call.text, "\n")
    /\ call.options.writingMode = "vertical"

\* C16: for several columns the block's height is the largest column height
\* and its width the first column's width + (columnCount - 1) x LH, with LH =
\* lineHeight x fontSize; column i (from 0) has x = blockX + totalWidth -
\* (i + 1) x LH + (LH - columnWidth) / 2, so x falls strictly from column to
\* column; every column has y = blockY and baseline = y + ascender.
C16_VerticalMultiLineLayout ==
    MultiLineVertical =>
        LET m == result.value
            n == Len(m.lines)
        IN  /\ ~result.threw
            /\ \A i \in 1..n : m.lines[i].height <= m.height
            /\ \E i \in 1..n : m.lines[i].height = m.height
            /\ m.width = m.lines[1].width + (n - 1) * LH
            /\ \A i \in 1..n :
                 /\ 2 * (m.lines[i].x - (m.x + m.width - i * LH)) = LH - m.lines[i].width
                 /\ m.lines[i].y = m.y
                 /\ m.lines[i].baseline = m.lines[i].y + m.lines[i].ascender
            /\ \A i \in 1..(n - 1) : m.lines[i + 1].x < m.lines[i].x

\* "A\nA": the second column lies one line height to the left of the first
C16_Witness ==
    /\ MultiLineVertical
    /\ call.text = <<"A", "\n", "A">>
    /\ call.options.lineHeight = 0
    /\ result.value.lines[2].x = result.value.lines[1].x - LH
    /\ result.value.lines[1].y = result.value.y

-----------------------------------------------------------------------------
(* Properties of the envelope transformation *)

ArcAtAngleZero ==
    call.made /\ call.options.arc.given /\ call.options.arc.angle = 0

\* the points of a command: its endpoint, and its control points if it has any
PointsOf(cmd) ==
    (IF cmd.type \in {"M", "L", "C", "Q", "A"} THEN {<<"x", "y">>} ELSE {})
    \cup (IF hasX1(cmd) THEN {<<"x1", "y1">>} ELSE {})
    \cup (IF hasX2(cmd) THEN {<<"x2", "y2">>} ELSE {})

\* C17: with angle 0 transformPoint returns (centerX + x, centerY + y) and
\* rotation 0, and the transformed path has the commands of the given path,
\* as many, in the same order and of the same types, every endpoint and every
\* control point moved by the centre.
C17_ZeroAngleIsOffset ==
    ArcAtAngleZero =>
        LET arc == call.options.arc
            given == call.pathData
            moved == result.value
        IN  /\ Len(moved) = Len(given)
            /\ \A i \in 1..Len(given) :
                 /\ moved[i].type = given[i].type
                 /\ \A p \in PointsOf(given[i]) :
                      /\ transformPoint(arc, given[i][p[1]], given[i][p[2]])
                            = [x |-> arc.centerX + given[i][p[1]],
                               y |-> arc.centerY + given[i][p[2]],
                               rotation |-> 0]
                      /\ moved[i][p[1]] = arc.centerX + given[i][p[1]]
                      /\ moved[i][p[2]] = arc.centerY + given[i][p[2]]
                 /\ PointsOf(given[i]) = {} => moved[i] = given[i]

C17_Witness ==
    /\ ArcAtAngleZero
    /\ call.options.arc.centerX = 7
    /\ call.options.arc.centerY = -5
    /\ call.pathData = <<CurveTo(0, 30, 100, -30, 200, 0), ClosePath>>
    /\ result.value = <<CurveTo(7, 25, 107, -35, 207, -5), ClosePath>>

-----------------------------------------------------------------------------
(* Properties of the path synthesis *)

GetSVGReturned == call.made /\ ~result.threw

\* the path getSVG asks getD for
PathOfDocument ==
    getD(call.text,
         [call.options EXCEPT !.x = 0, !.y = 0, !.anchor = left \o <<" ">> \o top]).result.value

\* the x, and the y, of every endpoint and control point of a path
PointXs(pathData) ==
    UNION {{pathData[i][p[1]] : p \in PointsOf(pathData[i])} : i \in 1..Len(pathData)}

PointYs(pathData) ==
    UNION {{pathData[i][p[2]] : p \in PointsOf(pathData[i])} : i \in 1..Len(pathData)}

Least(numbers) == CHOOSE m \in numbers : \A n \in numbers : m <= n
Greatest(numbers) == CHOOSE m \in numbers : \A n \in numbers : m >= n

\* C18: for every text getSVG is given, a text of spaces included, the
\* viewBox is 0 0 (width + 20) (height + 20) of the box around every endpoint
\* and control point of the synthesized path, four finite numbers none below
\* 0, and the path of the document is the synthesized path moved so that its
\* box starts at (10, 10).
C18_DocumentFromBoundingBox ==
    GetSVGReturned =>
        LET given == PathOfDocument
            document == result.value
            twenty == 20 * font.unitsPerEm
            ten == 10 * font.unitsPerEm
        IN  /\ \A k \in 1..4 : document.viewBox[k].finite /\ document.viewBox[k].value >= 0
            /\ document.viewBox =
                 <<Finite(0), Finite(0),
                   Finite(Greatest(PointXs(given)) - Least(PointXs(given)) + twenty),
                   Finite(Greatest(PointYs(given)) - Least(PointYs(given)) + twenty)>>
            /\ Len(document.d) = Len(given)
            /\ Least(PointXs(document.d)) = ten
            /\ Least(PointYs(document.d)) = ten
            /\ \A i \in 1..Len(given) :
                 /\ document.d[i].type = given[i].type
                 /\ \A p \in PointsOf(given[i]) :
                      /\ document.d[i][p[1]] - given[i][p[1]] = ten - Least(PointXs(given))
                      /\ document.d[i][p[2]] - given[i][p[2]] = ten - Least(PointYs(given))

\* C19: getD leaves the options object of the caller as it was, so that what
\* a call returns is what it returns for the options as the caller made them.
C19_OptionsUntouched ==
    call.made > 0 =>
        /\ call.object = call.options
        /\ result = getD(call.text, call.options).result

-----------------------------------------------------------------------------
(* The race of two loads of one key *)

\* C20: two get() of one key that is not in the map can both miss, both load
\* and both insert.  The load that inserts second finds the key set by the
\* first: the map keeps its entries, one for the key, now with the second
\* size and the second instance, totalSize grows by the second size on top of
\* the first, and the second caller gets another instance than the first.
C20_BothInsert ==
    [][\A l \in InFlight :
          (Parse(l) /\ Has(cache, CacheKey(l.fontFile))) =>
              LET cacheKey == CacheKey(l.fontFile) IN
              /\ Keys(cache') = Keys(cache)
              /\ Len(cache') = Len(cache)
              /\ totalSize' = totalSize + l.fileSize
              /\ SumSizes(cache') = SumSizes(cache) - Entry(cache, cacheKey).size + l.fileSize
              /\ last'.inst # Entry(cache, cacheKey).textToSVG
              /\ Entry(cache', cacheKey).textToSVG = last'.inst]_vars

\* C20 witness: two loads of one font of 100 MiB have both inserted: one
\* entry of 100 MiB that holds the second instance, and 200 MiB counted.
C20_Witness ==
    /\ NoLoadInFlight
    /\ last.kind = "load"
    /\ nextInst = 2
    /\ last.inst = 2
    /\ Len(cache) = 1
    /\ cache[1].textToSVG = 2
    /\ cache[1].size = 100 * MiB
    /\ totalSize = 200 * MiB

-----------------------------------------------------------------------------
(* Loads of different keys that overlap *)

\* C21: once all loads have completed, loads of different keys that overlapped
\* leave totalSize <= maxSize, unless one cached font alone is larger than
\* maxSize.  Where totalSize is the sum of the entries no key was counted
\* twice, so the total is that of different keys.
C21_CeilingUnderOverlap ==
    (NoLoadInFlight /\ totalSize = SumSizes(cache)) =>
        \/ totalSize <= maxSize
        \/ Len(cache) = 1 /\ cache[1].size > maxSize

-----------------------------------------------------------------------------
(* Properties of the path handling *)

\* a path that names nothing outside the directory it is joined to
Inside(segs) == \A i \in 1..Len(segs) : segs[i] \notin {"..", ".", ""}

\* C22: whatever segments the requested font file is made of, sanitizePath
\* returns a path without a '..', '.' or empty segment, and each of the four
\* candidates is that of a file under fonts or under uploads.
C22_SanitizedInside ==
    call.made =>
        /\ Inside(result.value.sanitized)
        /\ \A i \in 1..4 :
             /\ result.value.searchPaths[i][1] \in {"fonts", "uploads"}
             /\ Inside(Tail(result.value.searchPaths[i]))

C22_Witness ==
    /\ call.made
    /\ call.fontFile = <<"", "..", "a">>
    /\ result.value.sanitized = <<"a">>
    /\ result.value.searchPaths[2] = <<"uploads", "a">>

-----------------------------------------------------------------------------
(* Properties of the widths and heights *)

\* options.fontSize || 72, in pixels
SizeAsked == IF call.options.fontSize = 0 THEN 72 ELSE call.options.fontSize

\* What one glyph gets from letterSpacing (tenths of the fontSize), else from
\* tracking (thousandths of it).
SpacingTerm ==
    IF call.options.letterSpacing # 0 THEN call.options.letterSpacing * SizeAsked * 100
    ELSE IF call.options.tracking # 0 THEN call.options.tracking * SizeAsked
    ELSE 0

SingleLineVertical ==
    /\ call.made
    /\ ~includes(call.text, "\n")
    /\ call.options.writingMode = "vertical"

\* the places of the printable glyphs of the text, and of the other glyphs
Printable == {i \in 1..Len(call.text) : charCodeAt(call.text[i]) > 32}
Whitespace == {i \in 1..Len(call.text) : charCodeAt(call.text[i]) <= 32}

\* the height of the outline of a glyph, a tenth and six tenths of the fontSize
GlyphHeight == (font.boundingBox.y2 - font.boundingBox.y1) * SizeAsked
Tenth == 100 * SizeAsked
SixTenths == 600 * SizeAsked

\* C24 as stated: the height of a column is, for every printable glyph, the
\* height of its outline and its spacing term, a tenth of the fontSize for
\* every printable glyph that another printable glyph follows, none after the
\* last printable glyph even if whitespace follows it, and six tenths of the
\* fontSize for every glyph that is not printable.
C24_SpacingBetweenPrintable ==
    SingleLineVertical =>
        /\ ~result.threw
        /\ result.value.height =
              Cardinality(Printable) * (GlyphHeight + SpacingTerm)
              + Cardinality({i \in Printable : \E j \in Printable : j > i}) * Tenth
              + Cardinality(Whitespace) * SixTenths

\* C24: the height of a column is, for every printable glyph, the height of
\* its outline and its spacing term, a tenth of the fontSize for every
\* printable glyph that is not the last glyph of the text, be the glyphs
\* after it printable or not, and six tenths of the fontSize for every glyph
\* that is not printable.
C24_VerticalHeight ==
    SingleLineVertical =>
        /\ ~result.threw
        /\ result.value.height =
              Cardinality(Printable) * (GlyphHeight + SpacingTerm)
              + Cardinality({i \in Printable : i < Len(call.text)}) * Tenth
              + Cardinality(Whitespace) * SixTenths

\* C24 witness: "A B " at fontSize 100: two outlines of 80, two spaces of 60,
\* and a tenth after each of A and B, though only whitespace follows B.
C24_Witness ==
    /\ SingleLineVertical
    /\ call.text = <<"A", "B", " ">>
    /\ call.options.fontSize = 100
    /\ call.options.letterSpacing = 0
    /\ call.options.tracking = 0
    /\ result.value.height = (80 + 10 + 80 + 10 + 60) * font.unitsPerEm

(* Properties of the synthesis of a column *)
ColumnDrawn ==
    /\ call.made > 0
    /\ ~includes(call.text, "\n")
    /\ call.options.writingMode = "vertical"

\* where the cursor is when the loop comes to glyph i
CursorAt(i) ==
    call.options.y * font.unitsPerEm
    + Cardinality({j \in Printable : j < i}) * (GlyphHeight + Tenth + SpacingTerm)
    + Cardinality({j \in Whitespace : j < i}) * SixTenths

\* the commands of the path that draw glyph i, a printable glyph
OutlineOf(i) ==
    LET each == Len(glyphOutline(call.text[i]))
        before == Cardinality({j \in Printable : j < i})
    IN  SubSeq(result.value, before * each + 1, (before + 1) * each)

\* C25: a column of one line starts its cursor at options.y and takes the
\* glyphs in the order of the text; a printable glyph is drawn with the top
\* of its outline at the cursor and as far from options.x on its left as
\* from the other side of the column on its right, and moves the cursor by
\* its height, a tenth of the fontSize and the spacing term; a glyph that is
\* not printable draws nothing and moves the cursor by six tenths of the
\* fontSize; no outline ends below options.y + getVerticalHeight(text).
C25_VerticalColumn ==
    ColumnDrawn =>
        /\ ~result.threw
        /\ Len(result.value) = Cardinality(Printable) * Len(glyphOutline("B"))
        /\ \A i \in Printable :
              LET startX == call.options.x * font.unitsPerEm
                  columnWidth == (font.ascender - font.descender) * SizeAsked
              IN  /\ Least(PointYs(OutlineOf(i))) = CursorAt(i)
                  /\ Greatest(PointYs(OutlineOf(i))) = CursorAt(i) + GlyphHeight
                  /\ Least(PointXs(OutlineOf(i))) - startX
                        = startX + columnWidth - Greatest(PointXs(OutlineOf(i)))
                  /\ Least(PointXs(OutlineOf(i))) >= startX
                  /\ Greatest(PointYs(OutlineOf(i)))
                        <= call.options.y * font.unitsPerEm
                             + getVerticalHeight(call.text, call.options)

\* C25 witness: "B B" at fontSize 50, y 20 and letterSpacing 0.1: the second B
\* has its top at 20 + 40 + 5 + 5 + 30 = 100 and its bottom at 140, above
\* 20 + 125, the height of the column being 125.
C25_Witness ==
    /\ ColumnDrawn
    /\ call.text = <<"B", " ", "B">>
    /\ call.options.fontSize = 50
    /\ call.options.y = 20
    /\ Least(PointYs(OutlineOf(3))) = 100 * font.unitsPerEm
    /\ Greatest(PointYs(OutlineOf(3))) = 140 * font.unitsPerEm
    /\ getVerticalHeight(call.text, call.options) = 125 * font.unitsPerEm

(* Properties of the centre of the arc *)
\* the first call of getD with the object, for one line bent along an arc
LineBent ==
    /\ call.made = 1
    /\ ~includes(call.text, "\n")
    /\ call.options.writingMode # "vertical"
    /\ call.options.envelope.given
    /\ call.options.envelope.arc.given

\* C26: for one line with envelope.arc, getD sets arc.textWidth to the width
\* of the line whatever the caller put there; a centerX or centerY the caller
\* supplied is used as supplied, whatever its value, 0 too; one the caller
\* left unset becomes metrics.x + metrics.width / 2, respectively
\* metrics.baseline; and the path is transformed with that arc.
C26_ArcDefaults ==
    LineBent =>
        LET metrics == getMetrics(call.text, call.options).value
            supplied == call.options.envelope.arc
            used == call.object.envelope.arc
        IN  /\ used.textWidth = metrics.width
            /\ used.centerX = IF "centerX" \in supplied.own THEN supplied.centerX
                              ELSE metrics.x + (metrics.width \div 2)
            /\ used.centerY = IF "centerY" \in supplied.own THEN supplied.centerY
                              ELSE metrics.baseline
            /\ result = ReturnValue(transform(
                            toPathData(fontGetPath(call.text, metrics.x, metrics.baseline,
                                                   call.options)),
                            call.object.envelope))

\* the first call of getD with the object, for several lines bent along an
\* arc whose centre the caller left unset
LinesBent ==
    /\ call.made = 1
    /\ includes(call.text, "\n")
    /\ call.options.writingMode # "vertical"
    /\ call.options.envelope.given
    /\ call.options.envelope.arc.given
    /\ call.options.envelope.arc.own = {}

\* the lines from line i on that are not blank, each transformed with the
\* defaults of its own width, x and baseline
RECURSIVE EachWithOwnDefaults(_, _, _)
EachWithOwnDefaults(lines, i, options) ==
    IF i > Len(lines) THEN <<>>
    ELSE (IF isBlank(lines[i].text) THEN <<>>
          ELSE transform(toPathData(fontGetPath(lines[i].text, lines[i].x,
                                                lines[i].baseline, options)),
                         arcFilled(options, lines[i].width, lines[i].x,
                                   lines[i].baseline).envelope))
         \o EachWithOwnDefaults(lines, i + 1, options)

\* C27: for several lines with envelope.arc and no centre set by the caller,
\* the path is, in the order of the lines and without the blank lines, every
\* line transformed with textWidth = its width, centerX = its x + its width
\* / 2 and centerY = its baseline, whatever the lines before it were.
C27_OwnDefaultsPerLine ==
    LinesBent =>
        /\ ~result.threw
        /\ result.value =
              EachWithOwnDefaults(getMultilineMetrics(call.text, call.options).value.lines,
                                  1, call.options)

(* Properties of the left edges of the lines *)
\* the lines that are not blank, and where the outline of the first character
\* of such a line starts, seen from the origin of the line
NonBlank(lines) == {i \in 1..Len(lines) : ~isBlank(lines[i].text)}
EdgeOf(lines, i) == glyphBox(lines[i].text[1]).x1 * SizeAsked

\* the commands that draw the text, and those that draw the lines before
\* line i
RECURSIVE CommandsIn(_)
CommandsIn(text) ==
    IF text = <<>> THEN 0 ELSE Len(glyphOutline(Head(text))) + CommandsIn(Tail(text))

RECURSIVE CommandsBefore(_, _)
CommandsBefore(lines, i) ==
    IF i <= 1 THEN 0
    ELSE CommandsBefore(lines, i - 1) + CommandsIn(lines[i - 1].text)

\* where the outline of the first character of line i starts in the path
FirstEdgeDrawn(lines, i, before) ==
    Least(PointXs(SubSeq(result.value, before + 1,
                         before + Len(glyphOutline(lines[i].text[1])))))

\* what C28 says of the lines as they are laid out and as they are moved
FlushLeft(lines, moved, blockX) ==
    /\ \A i \in NonBlank(lines) :
          /\ moved[i].x + EdgeOf(lines, i)
                = blockX + Least({EdgeOf(lines, j) : j \in NonBlank(lines)})
          /\ FirstEdgeDrawn(lines, i, CommandsBefore(lines, i))
                = toFixed2(moved[i].x + EdgeOf(lines, i))
    /\ \A i \in (1..Len(lines)) \ NonBlank(lines) : moved[i].x = lines[i].x

Unmoved(lines) ==
    \A i \in NonBlank(lines) :
        FirstEdgeDrawn(lines, i, CommandsBefore(lines, i))
            = toFixed2(lines[i].x + EdgeOf(lines, i))

\* the lines and the x of the block as getMultilineMetrics lays them out
Laid == getMultilineMetrics(call.text, call.options).value

\* C28: with textAlign left, after the lines are moved every line that is
\* not blank has x + the left edge of its first character = x of the block +
\* the least such left edge, which is where the outline of its first
\* character starts in the path; a blank line is not counted and not moved;
\* with textAlign center or right no line is moved.
C28_LeftEdgesFlush ==
    (call.made /\ ~result.threw) =>
        IF call.options.textAlign \in {"", "left"}
        THEN FlushLeft(Laid.lines, compensated(Laid.lines, SizeAsked), Laid.x)
        ELSE Unmoved(Laid.lines)

\* C28 witness: B, a line of one space and C at the default fontSize 72 from
\* x = 0: C starts 7.2 right of its origin and B at its origin, so the line
\* of C is moved to x = -7.2 and its outline starts at 0 like that of B, and
\* the line of the space stays at 0.
C28_Witness ==
    /\ call.made
    /\ call.text = <<"B", "\n", " ", "\n", "C">>
    /\ call.options.textAlign = ""
    /\ call.options.fontSize = 0
    /\ compensated(Laid.lines, SizeAsked)[3].x = -7200
    /\ compensated(Laid.lines, SizeAsked)[2].x = 0
    /\ FirstEdgeDrawn(Laid.lines, 1, 0) = 0
    /\ FirstEdgeDrawn(Laid.lines, 3, CommandsIn(<<"B">>)) = 0

(* Properties of the answers to a get() that failed *)
\* C29: when the get() of a handler of /api/svg, /api/svg/path or
\* /api/svg/metrics throws because the requested font file is at none of the
\* places searched, the handler answers 404 'font_not_found'; when it throws
\* because the file is there and cannot be parsed, the handler answers 400
\* 'invalid_font'; neither error is thrown on by the handler.
C29_FontErrorsAnswered ==
    last.kind = "throw" =>
        \A route \in Routes :
            /\ last.error = "Font file not found" =>
                    answerTo(route, last)
                        = [rethrown |-> FALSE, status |-> 404, error |-> "font_not_found"]
            /\ last.error = "Failed to load font" =>
                    answerTo(route, last)
                        = [rethrown |-> FALSE, status |-> 400, error |-> "invalid_font"]

(* Properties of the block around the columns *)
\* C30: for several columns, whatever their number, the lineHeight and the
\* fontSize, every column lies between the left and the right side of the
\* block that getMetrics reports: x of the block <= x of the column, and x of
\* the column + its width <= x of the block + the width of the block.
C30_ColumnsInsideBlock ==
    (MultiLineVertical /\ ~result.threw) =>
        \A i \in 1..Len(result.value.lines) :
            /\ result.value.x <= result.value.lines[i].x
            /\ result.value.lines[i].x + result.value.lines[i].width
                  <= result.value.x + result.value.width

====
